---- MODULE Spec2Model ----
(***************************************************************************)
(* A model of the AI terminal: the two execution backends (LocalClient,    *)
(* SSHClient) with their working-directory tracking, the response parser   *)
(* and the dispatch loop of AITerminalWindow.                              *)
(*                                                                         *)
(* Text is modelled as sequences of tokens.  A path is a sequence of       *)
(* components, absolute when its first component is "/".  A shell command  *)
(* is the sequence of segments and separators that split_commands yields.  *)
(***************************************************************************)
EXTENDS Integers, Sequences, FiniteSets, TLC

\* ------------------------------------------------------------------ bounds
\* Number of execute calls made on a backend in the backend specification.
MaxCalls == 2

\* ------------------------------------------------------------------ paths
\* None / "" : an unknown working directory (falsy in the source).
NoDir == <<>>

Root == <<"/">>

\* The home directory of the user on either machine.
Home == <<"/", "home", "u">>

\* The directories that exist on the machine (no symbolic links).
Dirs ==
  { <<"/">>, <<"/", "tmp">>, <<"/", "tmp", "tmp">>, <<"/", "home">>,
    <<"/", "home", "u">> }

Last(s) == s[Len(s)]

Front(s) == SubSeq(s, 1, Len(s) - 1)

IsAbs(p) == p # <<>> /\ p[1] = "/"

\* os.path.join(a, b)
Join(a, b) == IF IsAbs(b) \/ a = <<>> THEN b ELSE a \o b

\* os.path.normpath(p): textual removal of "." and "..".
RECURSIVE NormFrom(_, _, _)
NormFrom(p, i, acc) ==
  IF i > Len(p) THEN acc
  ELSE LET c == p[i] IN
    IF c = "." THEN NormFrom(p, i + 1, acc)
    ELSE IF c = ".."
      THEN IF acc = <<"/">> THEN NormFrom(p, i + 1, acc)
           ELSE IF acc = <<>> \/ Last(acc) = ".."
                  THEN NormFrom(p, i + 1, Append(acc, c))
                  ELSE NormFrom(p, i + 1, Front(acc))
      ELSE NormFrom(p, i + 1, Append(acc, c))

NormPath(p) ==
  LET r == IF IsAbs(p) THEN NormFrom(p, 2, <<"/">>) ELSE NormFrom(p, 1, <<>>)
  IN IF r = <<>> THEN <<".">> ELSE r

\* os.path.expanduser(p)
ExpandUser(p) == IF p # <<>> /\ p[1] = "~" THEN Home \o SubSeq(p, 2, Len(p)) ELSE p

\* chdir(2): the kernel walks the path one component at a time; every
\* directory on the way has to exist.  The result is <<>> on failure.
RECURSIVE Walk(_, _, _)
Walk(cur, p, i) ==
  IF cur \notin Dirs THEN <<>>
  ELSE IF i > Len(p) THEN cur
  ELSE LET c == p[i] IN
    IF c = "." THEN Walk(cur, p, i + 1)
    ELSE IF c = ".."
      THEN Walk(IF cur = <<"/">> THEN cur ELSE Front(cur), p, i + 1)
      ELSE Walk(Append(cur, c), p, i + 1)

ChDir(cwd, p) == IF IsAbs(p) THEN Walk(<<"/">>, p, 2) ELSE Walk(cwd, p, 1)

\* ------------------------------------------------------------------ shell
\* One token of a command line: a segment (cd, pwd, echo) or a separator.
\* lit is TRUE for an argument that was passed through shlex.quote, which
\* the shell then takes literally (no tilde expansion).
Seg(op, arg, lit) == [op |-> op, arg |-> arg, lit |-> lit]

Cd(t) == Seg("cd", t, FALSE)

CdQuoted(t) == Seg("cd", t, TRUE)

CdNoArg == Seg("cd", <<>>, FALSE)

Pwd == Seg("pwd", <<>>, FALSE)

Echo(w) == Seg("echo", <<w>>, FALSE)

Semi == Seg(";", <<>>, FALSE)

AndAnd == Seg("&&", <<>>, FALSE)

IsSep(part) == part.op \in {";", "&&"}

\* part.startswith('cd ') on a stripped segment: a cd with an argument.
StartsWithCd(part) == part.op = "cd" /\ part.arg # <<>>

ErrNoSuchDir == <<"cd:", "No such file or directory">>

\* The shell runs one segment in the state st = [cwd, ok, out, err, log].
ShellStep(part, st) ==
  IF part.op = "cd"
    THEN LET t == IF part.arg = <<>> THEN Home
                  ELSE IF part.lit THEN part.arg ELSE ExpandUser(part.arg)
             d == ChDir(st.cwd, t)
         IN IF d = <<>>
              THEN [st EXCEPT !.ok = FALSE, !.err = Append(@, ErrNoSuchDir)]
              ELSE [st EXCEPT !.ok = TRUE, !.cwd = d]
  ELSE IF part.op = "pwd"
    THEN [st EXCEPT !.ok = TRUE, !.out = Append(@, st.cwd),
                    !.log = Append(@, [seg |-> part, cwd |-> st.cwd])]
  ELSE [st EXCEPT !.ok = TRUE, !.out = Append(@, part.arg),
                  !.log = Append(@, [seg |-> part, cwd |-> st.cwd])]

\* a ; b runs b always, a && b runs b only when the list so far succeeded.
RECURSIVE ShellFrom(_, _, _)
ShellFrom(cmd, i, st) ==
  IF i > Len(cmd) THEN st
  ELSE IF IsSep(cmd[i]) THEN ShellFrom(cmd, i + 1, st)
  ELSE IF i > 1 /\ cmd[i - 1].op = "&&" /\ ~st.ok THEN ShellFrom(cmd, i + 1, st)
  ELSE ShellFrom(cmd, i + 1, ShellStep(cmd[i], st))

\* A fresh shell process started in directory start runs the command line.
RunShell(start, cmd) ==
  ShellFrom(cmd, 1, [cwd |-> start, ok |-> TRUE, out |-> <<>>, err |-> <<>>,
                     log |-> <<>>])

\* ------------------------------------------------------------------ text
\* A text is a sequence of tokens: "\n", " ", a label or a word.
NL == "\n"

SP == " "

IsSpace(c) == c \in {NL, SP}

\* str.strip()
RECURSIVE LStrip(_)
LStrip(s) == IF s # <<>> /\ IsSpace(s[1]) THEN LStrip(Tail(s)) ELSE s

RECURSIVE RStrip(_)
RStrip(s) == IF s # <<>> /\ IsSpace(Last(s)) THEN RStrip(Front(s)) ELSE s

Strip(s) == RStrip(LStrip(s))

\* str.split('\n'): the lines of a text, one more than it has newlines.
RECURSIVE SplitFrom(_, _, _, _)
SplitFrom(s, i, cur, acc) ==
  IF i > Len(s) THEN Append(acc, cur)
  ELSE IF s[i] = NL THEN SplitFrom(s, i + 1, <<>>, Append(acc, cur))
  ELSE SplitFrom(s, i + 1, Append(cur, s[i]), acc)

SplitLines(s) == SplitFrom(s, 1, <<>>, <<>>)

\* str.replace(label, ""): every occurrence of the label goes.
RECURSIVE Remove(_, _)
Remove(line, label) ==
  IF line = <<>> THEN <<>>
  ELSE IF line[1] = label THEN Remove(Tail(line), label)
  ELSE <<line[1]>> \o Remove(Tail(line), label)

\* The text of command output: every line followed by a newline.
RECURSIVE Flat(_)
Flat(lines) == IF lines = <<>> THEN <<>> ELSE lines[1] \o <<NL>> \o Flat(Tail(lines))

\* ------------------------------------------------------------------ backends
\* What one execute_command call did: its return value (ok, output), the
\* directory fields after it, the probes it sent and the command lines it
\* handed to the general execution path (with what they ran where).
ExecResult(ok, output, dir, proc, probes, runs) ==
  [ok |-> ok, output |-> output, dir |-> dir, proc |-> proc,
   probes |-> probes, runs |-> runs]

GeneralRun(full, r) == [command |-> full, log |-> r.log]

\* LocalClient.execute_command without a callback.  The text after "cd " is
\* taken as the path whole: for a command line of several tokens the path is
\* the first target with the rest of the line glued to its last component.
LocalCdPath(command) ==
  IF Len(command) = 1 THEN command[1].arg
  ELSE Append(Front(command[1].arg), "<rest of line>")

\* execute_command that records the path of a cd before os.chdir has
\* accepted it.
LocalExecuteTracksUnchecked(cur, proc, command) ==
  IF command # <<>> /\ StartsWithCd(command[1])
    THEN LET path == Join(cur, ExpandUser(LocalCdPath(command)))
             d == ChDir(proc, path)
         IN IF d = <<>>
              THEN ExecResult(TRUE, ErrNoSuchDir, NormPath(path), proc, <<>>, <<>>)
              ELSE ExecResult(TRUE, <<>>, d, d, <<>>, <<>>)
  ELSE IF cur \notin Dirs
    THEN ExecResult(FALSE, ErrNoSuchDir, cur, proc, <<>>, <<>>)
  ELSE LET r == RunShell(cur, command)
       IN ExecResult(TRUE, Flat(r.out) \o Flat(r.err), cur, proc, <<>>,
                     <<GeneralRun(command, r)>>)

LocalExecute(cur, proc, command) ==
  IF command # <<>> /\ StartsWithCd(command[1])
    THEN LET path == Join(cur, ExpandUser(LocalCdPath(command)))
             d == ChDir(proc, path)
         IN IF d = <<>>
              THEN ExecResult(TRUE, ErrNoSuchDir, cur, proc, <<>>, <<>>)
              ELSE ExecResult(TRUE, <<>>, d, d, <<>>, <<>>)
  ELSE IF cur \notin Dirs
    THEN ExecResult(FALSE, ErrNoSuchDir, cur, proc, <<>>, <<>>)
  ELSE LET r == RunShell(cur, command)
       IN ExecResult(TRUE, Flat(r.out) \o Flat(r.err), cur, proc, <<>>,
                     <<GeneralRun(command, r)>>)

\* The directory-tracking loop of SSHClient.execute_command.  The state is
\* t = [last_dir, only_cd, probes]; a failed probe ends the loop (break).
ProbeCommand(last_dir, target) ==
  IF last_dir # NoDir
    THEN <<CdQuoted(last_dir), AndAnd, CdQuoted(target), AndAnd, Pwd>>
    ELSE <<CdQuoted(target), AndAnd, Pwd>>

\* The tracking loop without the break: a failed probe leaves its estimate
\* and the loop goes on to the next segment.
RECURSIVE TrackFromNoBreak(_, _, _)
TrackFromNoBreak(cmds, i, t) ==
  IF i > Len(cmds) THEN t
  ELSE LET part == cmds[i] IN
    IF IsSep(part) THEN TrackFromNoBreak(cmds, i + 1, t)
    ELSE IF StartsWithCd(part)
      THEN LET probe == ProbeCommand(t.last_dir, part.arg)
               r == RunShell(Home, probe)
               sent == Append(t.probes, probe)
           IN TrackFromNoBreak(cmds, i + 1,
                [t EXCEPT !.last_dir = IF r.out # <<>> /\ r.err = <<>>
                                         THEN Last(SplitLines(Strip(Flat(r.out))))
                                         ELSE NormPath(Join(t.last_dir, part.arg)),
                          !.probes = sent])
      ELSE TrackFromNoBreak(cmds, i + 1, [t EXCEPT !.only_cd = FALSE])

RECURSIVE TrackFrom(_, _, _)
TrackFrom(cmds, i, t) ==
  IF i > Len(cmds) THEN t
  ELSE LET part == cmds[i] IN
    IF IsSep(part) THEN TrackFrom(cmds, i + 1, t)
    ELSE IF StartsWithCd(part)
      THEN LET probe == ProbeCommand(t.last_dir, part.arg)
               r == RunShell(Home, probe)
               sent == Append(t.probes, probe)
           IN IF r.out # <<>> /\ r.err = <<>>
                THEN TrackFrom(cmds, i + 1,
                               [t EXCEPT !.last_dir = Last(SplitLines(Strip(Flat(r.out)))),
                                         !.probes = sent])
                ELSE [t EXCEPT !.last_dir = NormPath(Join(t.last_dir, part.arg)),
                               !.probes = sent]
      ELSE TrackFrom(cmds, i + 1, [t EXCEPT !.only_cd = FALSE])

NotConnected == <<"Not connected">>

RemoteExecute(connected, cur, proc, command) ==
  IF ~connected
    THEN ExecResult(FALSE, NotConnected, cur, proc, <<>>, <<>>)
  ELSE LET t == TrackFrom(command, 1,
                          [last_dir |-> cur, only_cd |-> TRUE, probes |-> <<>>])
           dir == IF t.last_dir # NoDir THEN t.last_dir ELSE cur
       IN IF t.only_cd /\ Len(command) = 1 /\ StartsWithCd(command[1])
            THEN ExecResult(TRUE, t.last_dir, dir, proc, t.probes, <<>>)
            ELSE LET full == IF dir # NoDir
                               THEN <<CdQuoted(dir), AndAnd>> \o command
                               ELSE command
                     r == RunShell(Home, full)
                 IN ExecResult(TRUE,
                               IF r.out # <<>> THEN Flat(r.out) ELSE Flat(r.err),
                               dir, proc, t.probes, <<GeneralRun(full, r)>>)

\* ------------------------------------------------------------------ parser
DECISION == "DECISION:"

COMMAND == "COMMAND:"

RESPONSE == "RESPONSE:"

\* line.replace(label, "") without the strip(): the variant C7 is tested
\* against.
LabelValueNoStrip(line, label) == Remove(line, label)

\* line.replace(label, "").strip()
LabelValue(line, label) == Strip(Remove(line, label))

StartsWith(line, label) == line # <<>> /\ line[1] = label

\* A loop turn that keeps the first DECISION and COMMAND value it has set.
ParseLineFirstWins(st, line) ==
  IF StartsWith(line, DECISION)
    THEN [st EXCEPT !.decision = IF @ = <<"CONVERSATION">>
                                   THEN LabelValue(line, DECISION) ELSE @,
                    !.response_started = FALSE]
  ELSE IF StartsWith(line, COMMAND)
    THEN [st EXCEPT !.command = IF @ = <<"NONE">>
                                  THEN LabelValue(line, COMMAND) ELSE @,
                    !.response_started = FALSE]
  ELSE IF StartsWith(line, RESPONSE)
    THEN [st EXCEPT !.ai_message = LabelValue(line, RESPONSE),
                    !.response_started = TRUE]
  ELSE IF st.response_started
    THEN [st EXCEPT !.ai_message = @ \o <<NL>> \o line]
  ELSE st

\* One turn of the loop of parse_ai_response.
ParseLine(st, line) ==
  IF StartsWith(line, DECISION)
    THEN [st EXCEPT !.decision = LabelValue(line, DECISION),
                    !.response_started = FALSE]
  ELSE IF StartsWith(line, COMMAND)
    THEN [st EXCEPT !.command = LabelValue(line, COMMAND),
                    !.response_started = FALSE]
  ELSE IF StartsWith(line, RESPONSE)
    THEN [st EXCEPT !.ai_message = LabelValue(line, RESPONSE),
                    !.response_started = TRUE]
  ELSE IF st.response_started
    THEN [st EXCEPT !.ai_message = @ \o <<NL>> \o line]
  ELSE st

RECURSIVE ParseFrom(_, _, _)
ParseFrom(lines, i, st) ==
  IF i > Len(lines) THEN st ELSE ParseFrom(lines, i + 1, ParseLine(st, lines[i]))

ParseAiResponse(response) ==
  LET st == ParseFrom(SplitLines(Strip(response)), 1,
                      [decision |-> <<"CONVERSATION">>, command |-> <<"NONE">>,
                       ai_message |-> <<>>, response_started |-> FALSE])
  IN [decision |-> st.decision, command |-> st.command,
      ai_message |-> st.ai_message]

\* ------------------------------------------------------------------ state
VARIABLES
  sessions,        \* every client object created so far, by identity 1, 2, ...
  ssh_client,      \* self.ssh_client: the identity of the active client, 0 = None
  procCwd,         \* the working directory of the application process
  execLog,         \* every execute_command call so far and what it did
  shape,           \* how the response text handed to the parser is built
  response,        \* the response text
  parsed,          \* what parse_ai_response returned for it, once it has run
  local_mode,      \* self.local_mode
  selected,        \* the active entry of quick_server_selector
  conversation_history,
  input_enabled,   \* send_btn and input_entry are sensitive
  saved_settings,  \* self.saved_settings: the max_output_chars entry
  threads,         \* the process threads, one per accepted request
  connThreads,     \* the connect threads
  idleQ,           \* callbacks handed to GLib.idle_add, not yet run
  chat,            \* the lines append_chat_message has shown for requests, its
                   \* ERROR lines and the line of on_clear_chat (the other
                   \* informational SYSTEM lines are left out)
  outLog,          \* every command output reported, with the limit applied
  saveLog,         \* every max_output_chars value validated by save_settings
  job,             \* the call in progress on the client in the operations
                   \* specification, with the process or channel it runs
  calls,           \* every call on that client that has returned
  streams,         \* the processes or channels streaming calls of several
                   \* threads have started on that client, and the one its
                   \* running_process / running_channel refers to (0 = None)
  tab              \* the input entry and the completion state of the window,
                   \* with the submits made from the entry that started no request

backendVars == <<sessions, ssh_client, procCwd, execLog>>

parseVars == <<shape, response, parsed>>

uiVars ==
  <<local_mode, selected, conversation_history, input_enabled, saved_settings,
    threads, connThreads, idleQ, chat, outLog, saveLog>>

opsVars == <<job, calls, streams>>

vars == <<backendVars, parseVars, uiVars, opsVars, tab>>

\* LocalClient.__init__ followed by connect().
NewLocalClient(proc) ==
  [kind |-> "local", connected |-> TRUE, current_directory |-> proc,
   running |-> FALSE, server |-> "Local", released |-> FALSE]

\* SSHClient.__init__.  released records that disconnect() has been called.
NewSSHClient(server) ==
  [kind |-> "remote", connected |-> FALSE, current_directory |-> NoDir,
   running |-> FALSE, server |-> server, released |-> FALSE]

\* client.execute_command(command) on client sid, as one call.
ExecuteOn(sid, command) ==
  LET c == sessions[sid] IN
  IF c.kind = "local"
    THEN LocalExecute(c.current_directory, procCwd, command)
    ELSE RemoteExecute(c.connected, c.current_directory, procCwd, command)

ExecEntry(sid, command, res, req) ==
  [sid |-> sid, kind |-> sessions[sid].kind, command |-> command,
   prior |-> sessions[sid].current_directory, res |-> res, req |-> req]

ApplyExec(sid, command, req) ==
  LET res == ExecuteOn(sid, command) IN
  /\ sessions' = [sessions EXCEPT ![sid].current_directory = res.dir]
  /\ procCwd' = res.proc
  /\ execLog' = Append(execLog, ExecEntry(sid, command, res, req))

\* The parser specification is not running.
ParseIdle == shape = <<>> /\ response = <<>> /\ parsed = <<>>

\* No call is made in the operations specification.
IdleJob ==
  [pc |-> "idle", command |-> <<>>, toWrite |-> <<>>, pipe |-> <<>>,
   all_output |-> <<>>, sink |-> <<>>, alive |-> FALSE, closed |-> FALSE,
   hangs |-> FALSE, overdue |-> FALSE]

\* No streaming call has started a process or channel.
NoStreams == [handles |-> <<>>, running |-> 0]

OpsIdle == job = IdleJob /\ calls = <<>> /\ streams = NoStreams

\* on_key_pressed has not been called: the entry is empty, self.completions,
\* self.completion_index and self.last_completion_text are as build_ui left
\* them.
NoTab ==
  [text |-> <<>>, cursor |-> 0, completions |-> <<>>, completion_index |-> 0,
   last_completion_text |-> <<>>, fetches |-> <<>>, applied |-> <<>>, keys |-> <<>>,
   submitted |-> <<>>]

\* There is no window.
UiIdle ==
  /\ local_mode = TRUE /\ selected = "Local" /\ conversation_history = <<>>
  /\ input_enabled = TRUE /\ saved_settings = <<>> /\ threads = <<>>
  /\ connThreads = <<>> /\ idleQ = <<>> /\ chat = <<>> /\ outLog = <<>>
  /\ saveLog = <<>> /\ tab = NoTab

\* ------------------------------------------------------------------ dispatch
\* Maximum number of characters to display from command output by default.
MAX_OUTPUT_CHARS == 150000

\* Requests submitted in one behaviour of the dispatch specification.
MaxRequests == 2

\* Requests submitted in one behaviour of the specification of overlapping
\* dispatches.
MaxRaceRequests == 3

\* Requests submitted in one behaviour of the session specification.
MaxSwitchRequests == 1

\* Client objects created in one behaviour.
MaxSessions == 4

\* Clicks on Save in the settings dialog in one behaviour.
MaxSaves == 1

\* Submits that start no request in one behaviour: those of an empty text
\* and those turned down with "Terminal not ready".
MaxRejected == 1

\* The saved remote servers.
Servers == {"s1", "s2"}

\* A max_output_chars value as stored or typed: an integer, or a text that
\* int() rejects.
IntValue(n) == [int |-> TRUE, n |-> n]

NotAnInt == [int |-> FALSE, n |-> 0]

\* process_ai_command: int(max_output), with the default for a negative
\* value and for a value int() rejects.
EffectiveMax(v) ==
  IF v.int THEN (IF v.n < 0 THEN MAX_OUTPUT_CHARS ELSE v.n) ELSE MAX_OUTPUT_CHARS

\* save_settings: the same validation of the text of max_output_entry.
ValidatedMax(v) ==
  IF v.int THEN (IF v.n < 0 THEN MAX_OUTPUT_CHARS ELSE v.n) ELSE MAX_OUTPUT_CHARS

TruncationMarker(n) == "\n... (output truncated, " \o ToString(n) \o " chars total)"

\* A cut one character late: the variant C9 is tested against.
TruncateOneLate(output, max_output) ==
  IF Len(output) > max_output
    THEN SubSeq(output, 1, max_output + 1) \o <<TruncationMarker(Len(output))>>
    ELSE output

\* if len(output) > max_output: the first max_output characters and the marker
Truncate(output, max_output) ==
  IF Len(output) > max_output
    THEN SubSeq(output, 1, max_output) \o <<TruncationMarker(Len(output))>>
    ELSE output

\* output or "(no output)"
Shown(output) == IF output = <<>> THEN <<"(no output)">> ELSE output

\* The command line a command text stands for: its segments and separators.
CommandLine(text) ==
  IF text = <<"pwd">> THEN <<Pwd>>
  ELSE IF text = <<"cd /tmp">> THEN <<Cd(<<"/", "tmp">>)>>
  ELSE <<Echo("?")>>

\* The whole history: the variant C18 is tested against.
LastTurnsAll(h, n) == h

\* conversation_history[-5:]
LastTurns(h, n) == IF Len(h) <= n THEN h ELSE SubSeq(h, Len(h) - n + 1, Len(h))

Turn(role, content) == [role |-> role, content |-> content]

ChatLine(role, text, req) == [role |-> role, text |-> text, req |-> req]

\* GLib.idle_add(fn, ...) on behalf of request req.
Callback(fn, req, role, text) ==
  [fn |-> fn, req |-> req, role |-> role, text |-> text, ok |-> TRUE, server |-> ""]

ConnectCallback(ok, server) ==
  [fn |-> "on_quick_connect_complete", req |-> 0, role |-> "", text |-> <<>>,
   ok |-> ok, server |-> server]

NewThread(message) ==
  [pc |-> "prompting", message |-> message, hist0 |-> conversation_history,
   context |-> <<>>, generate_failed |-> FALSE, decision |-> <<>>,
   command |-> <<>>, ai_message |-> <<>>, sid |-> 0, current_dir |-> NoDir]

RequestText(r) == <<"ask", ToString(r)>>

\* What the user may have typed when submitting request r.
Messages(r) == { <<SP>>, <<SP>> \o RequestText(r) }

TerminalNotReady == <<"Terminal not ready. Please wait or restart the application.">>

\* A submit that started no request: the stripped text of the entry and
\* whether a connected client was there.
Unaccepted(message) ==
  [message |-> message, ready |-> ssh_client # 0 /\ sessions[ssh_client].connected]

Rejected == Len(tab.submitted)

\* on_send_message that records the user turn before it looks at the client.
OnSendMessageRecordsFirst(text) ==
  /\ input_enabled
  /\ LET message == Strip(text) IN
     IF message = <<>>
       THEN /\ Rejected < MaxRejected
            /\ tab' = [tab EXCEPT !.submitted = Append(@, Unaccepted(message))]
            /\ UNCHANGED <<chat, conversation_history, input_enabled, threads>>
     ELSE IF ssh_client = 0 \/ ~sessions[ssh_client].connected
       THEN /\ Rejected < MaxRejected
            /\ tab' = [tab EXCEPT !.submitted = Append(@, Unaccepted(message))]
            /\ chat' = Append(chat, ChatLine("ERROR", TerminalNotReady, 0))
            /\ conversation_history' = Append(conversation_history, Turn("user", message))
            /\ UNCHANGED <<input_enabled, threads>>
     ELSE /\ tab' = [tab EXCEPT !.text = <<>>, !.cursor = 0]
          /\ chat' = Append(chat, ChatLine("USER", message, Len(threads) + 1))
          /\ conversation_history' = Append(conversation_history, Turn("user", message))
          /\ input_enabled' = FALSE
          /\ threads' = Append(threads, NewThread(message))
  /\ UNCHANGED <<backendVars, parseVars, opsVars, local_mode, selected, saved_settings,
                 connThreads, idleQ, outLog, saveLog>>

\* on_send_message: the input entry was activated or Send was clicked, which
\* takes a sensitive widget.
OnSendMessage(text) ==
  /\ input_enabled
  /\ LET message == Strip(text) IN
     IF message = <<>>
       THEN /\ Rejected < MaxRejected
            /\ tab' = [tab EXCEPT !.submitted = Append(@, Unaccepted(message))]
            /\ UNCHANGED <<chat, conversation_history, input_enabled, threads>>
     ELSE IF ssh_client = 0 \/ ~sessions[ssh_client].connected
       THEN /\ Rejected < MaxRejected
            /\ tab' = [tab EXCEPT !.submitted = Append(@, Unaccepted(message))]
            /\ chat' = Append(chat, ChatLine("ERROR", TerminalNotReady, 0))
            /\ UNCHANGED <<conversation_history, input_enabled, threads>>
     ELSE /\ tab' = [tab EXCEPT !.text = <<>>, !.cursor = 0]
          /\ chat' = Append(chat, ChatLine("USER", message, Len(threads) + 1))
          /\ conversation_history' = Append(conversation_history, Turn("user", message))
          /\ input_enabled' = FALSE
          /\ threads' = Append(threads, NewThread(message))
  /\ UNCHANGED <<backendVars, parseVars, opsVars, local_mode, selected, saved_settings,
                 connThreads, idleQ, outLog, saveLog>>

\* What client.generate(prompt) may return.
Reply(decision, command, message) ==
  <<DECISION, SP>> \o decision \o <<NL, COMMAND>> \o command
    \o <<NL, RESPONSE, SP>> \o message \o <<NL>>

ModelResponses ==
  { Reply(<<"COMMAND">>, <<SP, "pwd">>, <<"running">>),
    Reply(<<"COMMAND">>, <<SP, "cd /tmp">>, <<"going">>),
    Reply(<<"COMMAND">>, <<>>, <<"nothing">>),
    Reply(<<"COMMAND">>, <<SP, "NONE">>, <<"none">>),
    Reply(<<"CONVERSATION">>, <<SP, "pwd">>, <<"try", SP, "pwd">>),
    Reply(<<"CONVERSATION">>, <<SP, "NONE">>, <<"hello">>) }

GenerateOutcomes ==
  { [ok |-> FALSE, text |-> <<"model unreachable">>] }
    \cup { [ok |-> TRUE, text |-> t] : t \in ModelResponses }

\* The routing test without the comparison with NONE: the variant C8 is
\* tested against.
ShouldExecuteNone(p) == p.decision = <<"COMMAND">> /\ p.command # <<>>

\* if decision == "COMMAND" and command and command != "NONE"
ShouldExecute(p) ==
  p.decision = <<"COMMAND">> /\ p.command # <<>> /\ p.command # <<"NONE">>

CommandPrompt(current_dir, command) ==
  IF current_dir # NoDir
    THEN <<"[">> \o current_dir \o <<"]$ ">> \o command
    ELSE <<"$ ">> \o command

\* process_ai_command from its start to the call of execute_command: the
\* prompt is built, generate returns, the response is parsed and routed.
ThreadGenerate(r, outcome) ==
  /\ threads[r].pc = "prompting"
  /\ LET context == LastTurns(conversation_history, 5)
         p == ParseAiResponse(outcome.text)
         said == Append(idleQ, Callback("append_chat_message", r, "AI", p.ai_message))
         current_dir == IF ssh_client = 0 THEN NoDir
                        ELSE sessions[ssh_client].current_directory
         shown == Append(said, Callback("append_chat_message", r, "COMMAND",
                                        CommandPrompt(current_dir, p.command)))
         t == [threads[r] EXCEPT !.context = context]
     IN IF ~outcome.ok
          THEN /\ idleQ' = Append(idleQ, Callback("on_ai_error", r, "ERROR", outcome.text))
               /\ threads' = [threads EXCEPT ![r] =
                                [t EXCEPT !.pc = "finally", !.generate_failed = TRUE]]
               /\ UNCHANGED conversation_history
        ELSE LET u == [t EXCEPT !.decision = p.decision, !.command = p.command,
                                !.ai_message = p.ai_message]
             IN IF ShouldExecute(p)
                  THEN IF ssh_client = 0
                         THEN \* self.ssh_client is None: AttributeError, caught
                              /\ idleQ' = Append(shown, Callback("on_ai_error", r, "ERROR",
                                                                 <<"AttributeError">>))
                              /\ threads' = [threads EXCEPT ![r] = [u EXCEPT !.pc = "finally"]]
                              /\ UNCHANGED conversation_history
                         ELSE /\ idleQ' = shown
                              /\ threads' = [threads EXCEPT ![r] =
                                               [u EXCEPT !.pc = "executing",
                                                         !.sid = ssh_client,
                                                         !.current_dir = current_dir]]
                              /\ UNCHANGED conversation_history
                  ELSE /\ idleQ' = said
                       /\ conversation_history' =
                            Append(conversation_history, Turn("assistant", p.ai_message))
                       /\ threads' = [threads EXCEPT ![r] = [u EXCEPT !.pc = "finally"]]
  /\ UNCHANGED <<backendVars, parseVars, opsVars, tab, local_mode, selected, input_enabled,
                 saved_settings, connThreads, chat, outLog, saveLog>>

OutEntry(r, output, setting, max_output, reported) ==
  [req |-> r, output |-> output, setting |-> setting, max_output |-> max_output,
   reported |-> reported]

\* process_ai_command recording an assistant turn for a command whose
\* execute_command returned failure as well.
ThreadExecuteReturnAlwaysRecords(r) ==
  /\ threads[r].pc = "executing"
  /\ LET t == threads[r]
         res == ExecuteOn(t.sid, CommandLine(t.command))
         setting == saved_settings.max_output_chars
         max_output == EffectiveMax(setting)
         output == Truncate(res.output, max_output)
         new_dir == IF ssh_client = 0 THEN NoDir
                    ELSE IF ssh_client = t.sid THEN res.dir
                    ELSE sessions[ssh_client].current_directory
         reported == Append(idleQ, Callback("append_chat_message", r, "OUTPUT", Shown(output)))
     IN /\ ApplyExec(t.sid, CommandLine(t.command), r)
        /\ IF res.ok
             THEN /\ idleQ' =
                       IF new_dir # NoDir /\ new_dir # t.current_dir
                         THEN Append(reported,
                                     Callback("append_chat_message", r, "SYSTEM",
                                              <<"Directory changed to: ">> \o new_dir))
                         ELSE reported
                  /\ conversation_history' =
                       Append(conversation_history,
                              Turn("assistant", <<"Executed: ">> \o t.command
                                                  \o <<"\nOutput: ">> \o output))
                  /\ outLog' = Append(outLog, OutEntry(r, res.output, setting, max_output,
                                                       Shown(output)))
             ELSE /\ idleQ' = Append(idleQ, Callback("append_chat_message", r, "ERROR",
                                                     res.output))
                  /\ conversation_history' =
                       Append(conversation_history,
                              Turn("assistant", <<"Executed: ">> \o t.command
                                                  \o <<"\nOutput: ">> \o output))
                  /\ UNCHANGED outLog
        /\ threads' = [threads EXCEPT ![r].pc = "finally"]
  /\ UNCHANGED <<ssh_client, parseVars, opsVars, tab, local_mode, selected, input_enabled,
                 saved_settings, connThreads, chat, saveLog>>

\* process_ai_command from the return of execute_command to the end of the
\* try block: the output is cut, reported and recorded.
ThreadExecuteReturn(r) ==
  /\ threads[r].pc = "executing"
  /\ LET t == threads[r]
         res == ExecuteOn(t.sid, CommandLine(t.command))
         setting == saved_settings.max_output_chars
         max_output == EffectiveMax(setting)
         output == Truncate(res.output, max_output)
         new_dir == IF ssh_client = 0 THEN NoDir
                    ELSE IF ssh_client = t.sid THEN res.dir
                    ELSE sessions[ssh_client].current_directory
         reported == Append(idleQ, Callback("append_chat_message", r, "OUTPUT", Shown(output)))
     IN /\ ApplyExec(t.sid, CommandLine(t.command), r)
        /\ IF res.ok
             THEN /\ idleQ' =
                       IF new_dir # NoDir /\ new_dir # t.current_dir
                         THEN Append(reported,
                                     Callback("append_chat_message", r, "SYSTEM",
                                              <<"Directory changed to: ">> \o new_dir))
                         ELSE reported
                  /\ conversation_history' =
                       Append(conversation_history,
                              Turn("assistant", <<"Executed: ">> \o t.command
                                                  \o <<"\nOutput: ">> \o output))
                  /\ outLog' = Append(outLog, OutEntry(r, res.output, setting, max_output,
                                                       Shown(output)))
             ELSE /\ idleQ' = Append(idleQ, Callback("append_chat_message", r, "ERROR",
                                                     res.output))
                  /\ UNCHANGED <<conversation_history, outLog>>
        /\ threads' = [threads EXCEPT ![r].pc = "finally"]
  /\ UNCHANGED <<ssh_client, parseVars, opsVars, tab, local_mode, selected, input_enabled,
                 saved_settings, connThreads, chat, saveLog>>

\* The finally clause of process_ai_command.
ThreadFinally(r) ==
  /\ threads[r].pc = "finally"
  /\ idleQ' = Append(idleQ, Callback("re_enable_input", r, "", <<>>))
  /\ threads' = [threads EXCEPT ![r].pc = "done"]
  /\ UNCHANGED <<backendVars, parseVars, opsVars, tab, local_mode, selected, conversation_history,
                 input_enabled, saved_settings, connThreads, chat, outLog, saveLog>>

\* The main loop runs the oldest pending callback.
IdleAppendChatMessage ==
  /\ idleQ # <<>>
  /\ Head(idleQ).fn = "append_chat_message"
  /\ chat' = Append(chat, ChatLine(Head(idleQ).role, Head(idleQ).text, Head(idleQ).req))
  /\ idleQ' = Tail(idleQ)
  /\ UNCHANGED <<backendVars, parseVars, opsVars, tab, local_mode, selected, conversation_history,
                 input_enabled, saved_settings, threads, connThreads, outLog, saveLog>>

\* on_ai_error showing the error twice: the variant C6 is tested against.
OnAiErrorTwice ==
  /\ idleQ # <<>>
  /\ Head(idleQ).fn = "on_ai_error"
  /\ chat' = chat \o <<ChatLine("ERROR", Head(idleQ).text, Head(idleQ).req),
                        ChatLine("ERROR", Head(idleQ).text, Head(idleQ).req)>>
  /\ input_enabled' = TRUE
  /\ idleQ' = Tail(idleQ)
  /\ UNCHANGED <<backendVars, parseVars, opsVars, tab, local_mode, selected, conversation_history,
                 saved_settings, threads, connThreads, outLog, saveLog>>

\* on_ai_error: the error is shown and re_enable_input is called.
OnAiError ==
  /\ idleQ # <<>>
  /\ Head(idleQ).fn = "on_ai_error"
  /\ chat' = Append(chat, ChatLine("ERROR", Head(idleQ).text, Head(idleQ).req))
  /\ input_enabled' = TRUE
  /\ idleQ' = Tail(idleQ)
  /\ UNCHANGED <<backendVars, parseVars, opsVars, tab, local_mode, selected, conversation_history,
                 saved_settings, threads, connThreads, outLog, saveLog>>

ReEnableInput ==
  /\ idleQ # <<>>
  /\ Head(idleQ).fn = "re_enable_input"
  /\ input_enabled' = TRUE
  /\ idleQ' = Tail(idleQ)
  /\ UNCHANGED <<backendVars, parseVars, opsVars, tab, local_mode, selected, conversation_history,
                 saved_settings, threads, connThreads, chat, outLog, saveLog>>

\* save_settings with the text of max_output_entry.
SettingTexts == { IntValue(0 - 1), IntValue(0), IntValue(2), NotAnInt }

SaveSettings(text) ==
  /\ Len(saveLog) < MaxSaves
  /\ saved_settings' = [max_output_chars |-> IntValue(ValidatedMax(text))]
  /\ saveLog' = Append(saveLog, [entered |-> text, stored |-> ValidatedMax(text)])
  /\ UNCHANGED <<backendVars, parseVars, opsVars, tab, local_mode, selected, conversation_history,
                 input_enabled, threads, connThreads, idleQ, chat, outLog>>

\* ------------------------------------------------------------------ sessions
\* client.disconnect(): LocalClient calls kill_command, which signals its
\* running process and leaves the fields as they are; SSHClient closes its
\* connection and leaves running_channel as it is.
Disconnect(c) ==
  IF c.kind = "local" THEN [c EXCEPT !.released = TRUE]
  ELSE [c EXCEPT !.connected = FALSE, !.released = TRUE]

\* Connect threads whose completion callback has not run yet.
PendingConnects ==
  Len(SelectSeq(connThreads, LAMBDA c : c.pc # "done"))
    + Len(SelectSeq(idleQ, LAMBDA cb : cb.fn = "on_quick_connect_complete"))

\* The branch of on_quick_server_connect for "Local": the active client is
\* disconnected and a new LocalClient takes its place.
SwitchToLocal ==
  /\ local_mode' = TRUE
  /\ sessions' =
       Append(IF ssh_client # 0
                THEN [sessions EXCEPT ![ssh_client] = Disconnect(sessions[ssh_client])]
                ELSE sessions,
              NewLocalClient(procCwd))
  /\ ssh_client' = Len(sessions) + 1
  /\ selected' = "Local"

\* on_quick_server_connect, called when the active entry of the selector
\* changes, in a behaviour that creates at most max client objects.
OnQuickServerConnectUpTo(server_name, max) ==
  /\ server_name # selected
  /\ IF server_name = "Local"
       THEN /\ Len(sessions) + 2 * PendingConnects + 1 <= max
            /\ SwitchToLocal
            /\ UNCHANGED connThreads
       ELSE /\ Len(sessions) + 2 * PendingConnects + 2 <= max
            /\ local_mode' = FALSE
            /\ selected' = server_name
            /\ connThreads' = Append(connThreads, [pc |-> "start", server |-> server_name])
            /\ UNCHANGED <<sessions, ssh_client>>
  /\ UNCHANGED <<procCwd, execLog, parseVars, opsVars, tab, conversation_history, input_enabled,
                 saved_settings, threads, idleQ, chat, outLog, saveLog>>

OnQuickServerConnect(server_name) == OnQuickServerConnectUpTo(server_name, MaxSessions)

\* connect_thread, first statement: self.ssh_client = SSHClient(...).
ConnectThreadAssign(c) ==
  /\ connThreads[c].pc = "start"
  /\ sessions' = Append(sessions, NewSSHClient(connThreads[c].server))
  /\ ssh_client' = Len(sessions) + 1
  /\ connThreads' = [connThreads EXCEPT ![c].pc = "assigned"]
  /\ UNCHANGED <<procCwd, execLog, parseVars, opsVars, tab, local_mode, selected,
                 conversation_history, input_enabled, saved_settings, threads, idleQ,
                 chat, outLog, saveLog>>

\* What SSHClient.connect() may do: fail, or succeed with the directory the
\* pwd probe returned (unknown when the probe failed).
ConnectOutcomes ==
  { [ok |-> FALSE, dir |-> NoDir], [ok |-> TRUE, dir |-> Home],
    [ok |-> TRUE, dir |-> NoDir] }

\* connect_thread, second and third statement: self.ssh_client.connect() on
\* whatever self.ssh_client is by now, then idle_add of the completion.
ConnectThreadConnect(c, outcome) ==
  /\ connThreads[c].pc = "assigned"
  /\ connThreads' = [connThreads EXCEPT ![c].pc = "done"]
  /\ IF ssh_client = 0
       THEN \* AttributeError: the thread ends without a callback
            UNCHANGED <<sessions, idleQ>>
     ELSE IF sessions[ssh_client].kind = "local"
       THEN /\ sessions' = [sessions EXCEPT ![ssh_client].current_directory = procCwd]
            /\ idleQ' = Append(idleQ, ConnectCallback(TRUE, connThreads[c].server))
     ELSE /\ sessions' =
               IF outcome.ok
                 THEN [sessions EXCEPT ![ssh_client].connected = TRUE,
                                       ![ssh_client].current_directory = outcome.dir]
                 ELSE sessions
          /\ idleQ' = Append(idleQ, ConnectCallback(outcome.ok, connThreads[c].server))
  /\ UNCHANGED <<ssh_client, procCwd, execLog, parseVars, opsVars, tab, local_mode, selected,
                 conversation_history, input_enabled, saved_settings, threads, chat,
                 outLog, saveLog>>

\* on_quick_connect_complete; on failure the selector is reset to its first
\* entry, which calls on_quick_server_connect for "Local" when that changes it.
OnQuickConnectComplete ==
  /\ idleQ # <<>>
  /\ Head(idleQ).fn = "on_quick_connect_complete"
  /\ idleQ' = Tail(idleQ)
  /\ IF Head(idleQ).ok
       THEN UNCHANGED <<sessions, ssh_client, local_mode, selected, chat>>
     ELSE /\ chat' = Append(chat, ChatLine("ERROR", <<"Connection failed">>, 0))
          /\ IF selected # "Local"
               THEN SwitchToLocal
               ELSE UNCHANGED <<sessions, ssh_client, local_mode, selected>>
  /\ UNCHANGED <<procCwd, execLog, parseVars, opsVars, tab, conversation_history, input_enabled,
                 saved_settings, threads, connThreads, outLog, saveLog>>

\* on_ssh_disconnect with an active client (without one it only writes to
\* the chat).
OnSshDisconnect ==
  /\ ssh_client # 0
  /\ sessions' = [sessions EXCEPT ![ssh_client] = Disconnect(sessions[ssh_client])]
  /\ ssh_client' = 0
  /\ UNCHANGED <<procCwd, execLog, parseVars, opsVars, tab, local_mode, selected,
                 conversation_history, input_enabled, saved_settings, threads,
                 connThreads, idleQ, chat, outLog, saveLog>>

\* ------------------------------------------------------------------ the application
\* AITerminalWindow.__init__: local mode, a connected LocalClient, the
\* settings as loaded (max_output_chars missing or present).
Init ==
  /\ procCwd = Root
  /\ sessions = <<NewLocalClient(procCwd)>>
  /\ ssh_client = 1
  /\ execLog = <<>>
  /\ ParseIdle
  /\ local_mode = TRUE
  /\ selected = "Local"
  /\ conversation_history = <<>>
  /\ input_enabled = TRUE
  /\ saved_settings = [max_output_chars |-> IntValue(MAX_OUTPUT_CHARS)]
  /\ threads = <<>>
  /\ connThreads = <<>>
  /\ idleQ = <<>>
  /\ chat = <<>>
  /\ outLog = <<>>
  /\ saveLog = <<>>
  /\ OpsIdle
  /\ tab = NoTab

\* The dispatch loop with the settings dialog, on the client of the start.
Next ==
  \/ Len(threads) < MaxRequests
       /\ \E text \in Messages(Len(threads) + 1) : OnSendMessage(text)
  \/ \E r \in 1..Len(threads) : \E outcome \in GenerateOutcomes : ThreadGenerate(r, outcome)
  \/ \E r \in 1..Len(threads) : ThreadExecuteReturn(r)
  \/ \E r \in 1..Len(threads) : ThreadFinally(r)
  \/ IdleAppendChatMessage
  \/ OnAiError
  \/ ReEnableInput
  \/ \E text \in SettingTexts : SaveSettings(text)

Spec == Init /\ [][Next]_vars

\* The dispatch loop alone, with one more request.
NextRace ==
  \/ Len(threads) < MaxRaceRequests
       /\ \E text \in Messages(Len(threads) + 1) : OnSendMessage(text)
  \/ \E r \in 1..Len(threads) : \E outcome \in GenerateOutcomes : ThreadGenerate(r, outcome)
  \/ \E r \in 1..Len(threads) : ThreadExecuteReturn(r)
  \/ \E r \in 1..Len(threads) : ThreadFinally(r)
  \/ IdleAppendChatMessage
  \/ OnAiError
  \/ ReEnableInput

SpecRace == Init /\ [][NextRace]_vars

\* What a step of a request thread or of a pending callback changes.
dispatchVars == <<[r \in 1..Len(threads) |-> threads[r].pc], Len(idleQ)>>

\* The dispatch loop when generate and execute_command return, every thread
\* is scheduled and the main loop runs its pending callbacks.
SpecRaceLive ==
  /\ SpecRace
  /\ \A r \in 1..MaxRaceRequests :
       /\ WF_dispatchVars(r <= Len(threads)
                            /\ \E outcome \in GenerateOutcomes : ThreadGenerate(r, outcome))
       /\ WF_dispatchVars(r <= Len(threads) /\ ThreadExecuteReturn(r))
       /\ WF_dispatchVars(r <= Len(threads) /\ ThreadFinally(r))
  /\ WF_dispatchVars(IdleAppendChatMessage)
  /\ WF_dispatchVars(OnAiError)
  /\ WF_dispatchVars(ReEnableInput)

\* The responses that generate returns in the session specification.
SwitchOutcomes ==
  { [ok |-> TRUE, text |-> t] :
      t \in ModelResponses \ {Reply(<<"COMMAND">>, <<SP, "cd /tmp">>, <<"going">>)} }

\* The dispatch loop while the user switches between the local terminal and
\* the saved servers and disconnects.
NextSwitch ==
  \/ Len(threads) < MaxSwitchRequests
       /\ \E text \in Messages(Len(threads) + 1) : OnSendMessage(text)
  \/ \E r \in 1..Len(threads) : \E outcome \in SwitchOutcomes : ThreadGenerate(r, outcome)
  \/ \E r \in 1..Len(threads) : ThreadExecuteReturn(r)
  \/ \E r \in 1..Len(threads) : ThreadFinally(r)
  \/ IdleAppendChatMessage
  \/ OnAiError
  \/ ReEnableInput
  \/ \E server_name \in Servers \cup {"Local"} : OnQuickServerConnect(server_name)
  \/ \E c \in 1..Len(connThreads) : ConnectThreadAssign(c)
  \/ \E c \in 1..Len(connThreads) : \E outcome \in ConnectOutcomes : ConnectThreadConnect(c, outcome)
  \/ OnQuickConnectComplete
  \/ OnSshDisconnect

SpecSwitch == Init /\ [][NextSwitch]_vars

\* Client objects created in one behaviour of the connect specification:
\* enough for two connects under way at once.
MaxConnectSessions == 5

\* The user moves between the saved servers and the local terminal while
\* connects are under way; nothing is submitted.
NextConnect ==
  \/ \E server_name \in Servers \cup {"Local"} :
       OnQuickServerConnectUpTo(server_name, MaxConnectSessions)
  \/ \E c \in 1..Len(connThreads) : ConnectThreadAssign(c)
  \/ \E c \in 1..Len(connThreads) : \E outcome \in ConnectOutcomes : ConnectThreadConnect(c, outcome)
  \/ OnQuickConnectComplete

SpecConnect == Init /\ [][NextConnect]_vars

\* No client was created but the first one and those of the connect threads.
OnlyRemoteConnects == \A i \in 2..Len(sessions) : sessions[i].kind = "remote"

\* C36: when connects to servers have overlapped, the completion callback of
\* one reports success and no other connect is under way or waits to
\* report, the server the status label then names is the server of the
\* active client.
C36_StatusNamesActiveSession ==
  [][(/\ idleQ # <<>>
      /\ Head(idleQ).fn = "on_quick_connect_complete"
      /\ Head(idleQ).ok
      /\ idleQ' = Tail(idleQ)
      /\ OnlyRemoteConnects
      /\ PendingConnects' = 0) =>
       /\ ssh_client' # 0
       /\ sessions'[ssh_client'].kind = "remote"
       /\ sessions'[ssh_client'].server = Head(idleQ).server]_vars

\* ------------------------------------------------------------------ operations on a client
\* Calls started on the client in one behaviour.
MaxOps == 2

\* Chunks a streamed command writes.
MaxChunks == 2

\* The variables the operations on a client leave alone.
opsFrame == <<ssh_client, procCwd, execLog, parseVars, uiVars, tab, streams>>

TheClient == sessions[1]

\* One chunk of output: a line with its newline.
Chunk(i) == <<"line" \o ToString(i), NL>>

\* What a streamed command writes before it exits.
CommandOutputs == { [i \in 1..n |-> Chunk(i)] : n \in 0..MaxChunks }

\* ''.join(all_output)
RECURSIVE Joined(_)
Joined(chunks) == IF chunks = <<>> THEN <<>> ELSE chunks[1] \o Joined(Tail(chunks))

\* A call that has returned: the value it returned, the client before and
\* after it, the chunks it read and those it passed to the sink, what the
\* environment did (outcome), and the call in progress before and after.
CallEntry(op, ok, output, before, after, read, sink, outcome, jobBefore, jobAfter) ==
  [op |-> op, ok |-> ok, output |-> output, before |-> before, after |-> after,
   read |-> read, sink |-> sink, outcome |-> outcome, jobBefore |-> jobBefore,
   jobAfter |-> jobAfter]

NoOutcome == [ok |-> TRUE, dir |-> NoDir]

\* The process or channel of the call in progress is gone.
Ended(j) == [j EXCEPT !.alive = FALSE, !.toWrite = <<>>]

\* A connect() that treats a failed probe as a failed connection.
SshConnectProbeFatal(c, outcome) ==
  IF outcome.ok /\ outcome.dir # NoDir
    THEN [c EXCEPT !.connected = TRUE, !.current_directory = outcome.dir]
    ELSE c

\* SSHClient.connect() on client c.
SshConnect(c, outcome) ==
  IF outcome.ok
    THEN [c EXCEPT !.connected = TRUE, !.current_directory = outcome.dir]
    ELSE c

\* The diagnostic connect() returns.
ConnectMessage(outcome) ==
  IF outcome.ok THEN <<"Connected successfully">> ELSE <<"connect failed">>

ClientConnect(outcome) ==
  /\ job.pc = "idle"
  /\ Len(calls) < MaxOps
  /\ TheClient.kind = "remote"
  /\ ~TheClient.connected
  /\ sessions' = [sessions EXCEPT ![1] = SshConnect(TheClient, outcome)]
  /\ calls' = Append(calls, CallEntry("connect", outcome.ok, ConnectMessage(outcome),
                                      TheClient, SshConnect(TheClient, outcome),
                                      <<>>, <<>>, outcome, job, job))
  /\ UNCHANGED <<job, opsFrame>>

\* interrupt_command(): whether the signal or the Ctrl+C byte was sent.
InterruptReturns(c, j) == c.running /\ (c.kind = "local" \/ ~j.closed)

\* The call in progress after interrupt_command(); dies tells whether the
\* command ends on the interrupt.
InterruptJob(c, j, dies) ==
  IF InterruptReturns(c, j) /\ dies THEN Ended(j) ELSE j

InterruptCommand(dies) ==
  /\ Len(calls) < MaxOps
  /\ job' = InterruptJob(TheClient, job, dies)
  /\ calls' = Append(calls, CallEntry("interrupt", InterruptReturns(TheClient, job), <<>>,
                                      TheClient, TheClient, <<>>, <<>>, NoOutcome,
                                      job, InterruptJob(TheClient, job, dies)))
  /\ UNCHANGED <<sessions, opsFrame>>

\* A kill_command() that always reports a kill.
KillReturnsTrue(c) == TRUE

\* kill_command(): whether there was a handle to kill.
KillReturns(c) == c.running

\* The client after kill_command(): SSHClient forgets the channel it closed,
\* LocalClient keeps the handle of the process it signalled.
KillClient(c) ==
  IF c.running /\ c.kind = "remote" THEN [c EXCEPT !.running = FALSE] ELSE c

\* A kill_command() that leaves the command running.
KillJobNoEffect(c, j) == j

\* The call in progress after kill_command().
KillJob(c, j) ==
  IF ~c.running THEN j
  ELSE IF c.kind = "remote" THEN [Ended(j) EXCEPT !.closed = TRUE]
  ELSE Ended(j)

KillCommand ==
  /\ Len(calls) < MaxOps
  /\ sessions' = [sessions EXCEPT ![1] = KillClient(TheClient)]
  /\ job' = KillJob(TheClient, job)
  /\ calls' = Append(calls, CallEntry("kill", KillReturns(TheClient), <<>>, TheClient,
                                      KillClient(TheClient), <<>>, <<>>, NoOutcome,
                                      job, KillJob(TheClient, job)))
  /\ UNCHANGED opsFrame

\* The call in progress after disconnect(): LocalClient kills the process,
\* closing the connection of an SSHClient closes its channels.
DisconnectJob(c, j) ==
  IF c.kind = "local" THEN KillJob(c, j)
  ELSE IF j.pc = "idle" THEN j
  ELSE [Ended(j) EXCEPT !.closed = TRUE]

ClientDisconnect ==
  /\ Len(calls) < MaxOps
  /\ sessions' = [sessions EXCEPT ![1] = Disconnect(TheClient)]
  /\ job' = DisconnectJob(TheClient, job)
  /\ calls' = Append(calls, CallEntry("disconnect", TRUE, <<>>, TheClient,
                                      Disconnect(TheClient), <<>>, <<>>, NoOutcome,
                                      job, DisconnectJob(TheClient, job)))
  /\ UNCHANGED opsFrame

\* What the environment does to a command that is started: whether it starts
\* at all, and the chunks it writes.
StreamOutcomes == { [ok |-> b, dir |-> NoDir] : b \in BOOLEAN }

\* execute_command(command, output_callback) for a command that is no cd:
\* _execute_streaming starts the command and keeps its handle.
StartStreaming(chunks, outcome) ==
  /\ job.pc = "idle"
  /\ Len(calls) < MaxOps
  /\ IF TheClient.kind = "remote" /\ ~TheClient.connected
       THEN /\ calls' = Append(calls, CallEntry("execute", FALSE, NotConnected, TheClient,
                                                TheClient, <<>>, <<>>, outcome, job, job))
            /\ UNCHANGED <<job, sessions>>
     ELSE IF ~outcome.ok
       THEN /\ calls' = Append(calls, CallEntry("stream", FALSE, <<"spawn failed">>,
                                                TheClient, TheClient, <<>>, <<>>, outcome,
                                                job, job))
            /\ UNCHANGED <<job, sessions>>
     ELSE /\ job' = [IdleJob EXCEPT !.pc = "streaming", !.toWrite = chunks, !.alive = TRUE]
          /\ sessions' = [sessions EXCEPT ![1].running = TRUE]
          /\ UNCHANGED calls
  /\ UNCHANGED opsFrame

\* The command writes its next chunk.
Produce ==
  /\ job.pc = "streaming"
  /\ job.alive
  /\ job.toWrite # <<>>
  /\ job' = [job EXCEPT !.pipe = Append(@, Head(job.toWrite)), !.toWrite = Tail(@)]
  /\ UNCHANGED <<sessions, calls, opsFrame>>

\* The command exits by itself.
Exit ==
  /\ job.pc = "streaming"
  /\ job.alive
  /\ job.toWrite = <<>>
  /\ job' = [job EXCEPT !.alive = FALSE]
  /\ UNCHANGED <<sessions, calls, opsFrame>>

\* LocalClient._execute_streaming: one round of the readline loop, which
\* leaves the loop after a line when the process has exited; the lines still
\* in the pipe stay there.
LocalRead ==
  /\ job.pc = "streaming"
  /\ TheClient.kind = "local"
  /\ job.pipe # <<>>
  /\ job' = [job EXCEPT !.all_output = Append(@, Head(job.pipe)),
                        !.sink = Append(@, Head(job.pipe)),
                        !.pipe = Tail(@),
                        !.pc = IF job.alive THEN "streaming" ELSE "waiting"]
  /\ UNCHANGED <<sessions, calls, opsFrame>>

\* readline() returns '' at the end of the output.
LocalEof ==
  /\ job.pc = "streaming"
  /\ TheClient.kind = "local"
  /\ job.pipe = <<>>
  /\ ~job.alive
  /\ job' = [job EXCEPT !.pc = "waiting"]
  /\ UNCHANGED <<sessions, calls, opsFrame>>

\* wait(), running_process = None, return True, ''.join(all_output)
LocalFinish ==
  /\ job.pc = "waiting"
  /\ sessions' = [sessions EXCEPT ![1].running = FALSE]
  /\ calls' = Append(calls, CallEntry("stream", TRUE, Joined(job.all_output), TheClient,
                                      [TheClient EXCEPT !.running = FALSE],
                                      job.all_output, job.sink, NoOutcome, job, IdleJob))
  /\ job' = IdleJob
  /\ UNCHANGED opsFrame

\* SSHClient._execute_streaming: one round of the polling loop with data
\* ready on the channel.
RemoteRead ==
  /\ job.pc = "streaming"
  /\ TheClient.kind = "remote"
  /\ TheClient.running
  /\ job.pipe # <<>>
  /\ job' = [job EXCEPT !.all_output = Append(@, Head(job.pipe)),
                        !.sink = Append(@, Head(job.pipe)),
                        !.pipe = Tail(@)]
  /\ UNCHANGED <<sessions, calls, opsFrame>>

\* exit_status_ready(): the rest is drained, the channel is closed and
\* forgotten, and the joined output is returned.
RemoteFinish ==
  /\ job.pc = "streaming"
  /\ TheClient.kind = "remote"
  /\ TheClient.running
  /\ ~job.alive \/ job.closed
  /\ sessions' = [sessions EXCEPT ![1].running = FALSE]
  /\ calls' = Append(calls, CallEntry("stream", TRUE, Joined(job.all_output \o job.pipe),
                                      TheClient, [TheClient EXCEPT !.running = FALSE],
                                      job.all_output \o job.pipe, job.sink \o job.pipe,
                                      NoOutcome, job, IdleJob))
  /\ job' = IdleJob
  /\ UNCHANGED opsFrame

\* The polling loop after kill_command() has set running_channel to None:
\* the next use of the channel raises, and the handler returns the text of
\* the exception.
RemoteKilled ==
  /\ job.pc = "streaming"
  /\ TheClient.kind = "remote"
  /\ ~TheClient.running
  /\ calls' = Append(calls, CallEntry("stream", FALSE, <<"AttributeError">>, TheClient,
                                      TheClient, job.all_output, job.sink, NoOutcome,
                                      job, IdleJob))
  /\ job' = IdleJob
  /\ UNCHANGED <<sessions, opsFrame>>

\* execute_command(command) without a callback reaches the backend's shell;
\* hangs tells whether the command is still running when the timeout expires.
StartBlocking(command, hangs) ==
  /\ job.pc = "idle"
  /\ Len(calls) < MaxOps
  /\ job' = [IdleJob EXCEPT !.pc = "blocking", !.command = command, !.alive = TRUE,
                            !.hangs = hangs /\ (TheClient.kind = "local" \/ TheClient.connected)]
  /\ UNCHANGED <<sessions, calls, opsFrame>>

\* The command finishes and execute_command returns its result.
FinishBlocking ==
  /\ job.pc = "blocking"
  /\ ~job.hangs
  /\ ApplyExec(1, job.command, 0)
  /\ calls' = Append(calls, CallEntry("execute", ExecuteOn(1, job.command).ok,
                                      ExecuteOn(1, job.command).output, TheClient,
                                      [TheClient EXCEPT !.current_directory =
                                                          ExecuteOn(1, job.command).dir],
                                      <<>>, <<>>, NoOutcome, job, IdleJob))
  /\ job' = IdleJob
  /\ UNCHANGED <<ssh_client, parseVars, uiVars, tab, streams>>

TIMED_OUT == <<"Command timed out (30 seconds)">>

\* The names the backend's shell knows, in the order compgen prints them.
Names == << <<"f", "b">>, <<"f", "a">>, <<"f", "c">>, <<"g">>, <<"g", "a">> >>

IsPrefix(p, n) == Len(p) <= Len(n) /\ SubSeq(n, 1, Len(p)) = p

\* The lines compgen prints for a partial word.
Compgen(partial) == SelectSeq(Names, LAMBDA n : IsPrefix(partial, n))

\* Every line stripped, the empty ones dropped, in the order they came.
StrippedLines(lines) ==
  SelectSeq([i \in 1..Len(lines) |-> Strip(lines[i])], LAMBDA l : l # <<>>)

\* [line.strip() for line in output.split('\n') if line.strip()]
CompletionLines(stdout) == StrippedLines(SplitLines(stdout))

\* What the completion probe does: it prints its lines, it raises, or it
\* does not finish.
ProbeKinds == {"lines", "raises", "hangs"}

\* get_completions(partial_text) when the probe finishes or raises.
CompletionsOf(c, partial, kind) ==
  IF c.kind = "remote" /\ ~c.connected THEN <<>>
  ELSE IF kind = "lines" THEN CompletionLines(Flat(Compgen(partial)))
  ELSE <<>>

GetCompletions(partial, kind) ==
  /\ job.pc = "idle"
  /\ Len(calls) < MaxOps
  /\ IF kind = "hangs" /\ (TheClient.kind = "local" \/ TheClient.connected)
       THEN /\ job' = [IdleJob EXCEPT !.pc = "completing", !.command = partial,
                                      !.alive = TRUE, !.hangs = TRUE]
            /\ UNCHANGED calls
       ELSE /\ calls' = Append(calls, CallEntry("get_completions", TRUE,
                                                CompletionsOf(TheClient, partial, kind),
                                                TheClient, TheClient, Compgen(partial), <<>>,
                                                [ok |-> kind = "lines", dir |-> NoDir],
                                                job, job))
            /\ UNCHANGED job
  /\ UNCHANGED <<sessions, opsFrame>>

\* subprocess.run raises TimeoutExpired: execute_command returns the timeout
\* diagnostic, get_completions the empty list.
LocalTimeout ==
  /\ job.pc \in {"blocking", "completing"}
  /\ job.hangs
  /\ TheClient.kind = "local"
  /\ calls' = Append(calls,
                     IF job.pc = "blocking"
                       THEN CallEntry("execute", FALSE, TIMED_OUT, TheClient, TheClient,
                                      <<>>, <<>>, NoOutcome, job, IdleJob)
                       ELSE CallEntry("get_completions", TRUE, <<>>, TheClient, TheClient,
                                      <<>>, <<>>, [ok |-> FALSE, dir |-> NoDir], job, IdleJob))
  /\ job' = IdleJob
  /\ UNCHANGED <<sessions, opsFrame>>

\* The timeout of the call expires while stdout.read() of an SSHClient waits:
\* exec_command is given no timeout and nothing ends the read.
TimePasses ==
  /\ job.pc \in {"blocking", "completing"}
  /\ job.hangs
  /\ TheClient.kind = "remote"
  /\ ~job.overdue
  /\ job' = [job EXCEPT !.overdue = TRUE]
  /\ UNCHANGED <<sessions, calls, opsFrame>>

\* stdout.read() of an SSHClient ends when the connection is closed.
RemoteReleased ==
  /\ job.pc \in {"blocking", "completing"}
  /\ job.hangs
  /\ TheClient.kind = "remote"
  /\ job.closed
  /\ calls' = Append(calls,
                     IF job.pc = "blocking"
                       THEN CallEntry("execute", TRUE, <<>>, TheClient, TheClient,
                                      <<>>, <<>>, NoOutcome, job, IdleJob)
                       ELSE CallEntry("get_completions", TRUE, <<>>, TheClient, TheClient,
                                      <<>>, <<>>, [ok |-> FALSE, dir |-> NoDir], job, IdleJob))
  /\ job' = IdleJob
  /\ UNCHANGED <<sessions, opsFrame>>

\* The commands executed without a callback.
BlockingCommands == { <<Pwd>> }

\* The partial words completed.
Partials == { <<"f">>, <<"x">> }

InitOps ==
  /\ procCwd = Root
  /\ \/ sessions = <<NewLocalClient(Root)>>
     \/ sessions = <<NewSSHClient("s1")>>
     \/ \E d \in {Home, NoDir} :
          sessions = <<[NewSSHClient("s1") EXCEPT !.connected = TRUE,
                                                  !.current_directory = d]>>
  /\ ssh_client = 1
  /\ execLog = <<>>
  /\ ParseIdle
  /\ UiIdle
  /\ OpsIdle

NextOps ==
  \/ \E outcome \in ConnectOutcomes : ClientConnect(outcome)
  \/ \E dies \in BOOLEAN : InterruptCommand(dies)
  \/ KillCommand
  \/ ClientDisconnect
  \/ \E chunks \in CommandOutputs, outcome \in StreamOutcomes :
       StartStreaming(chunks, outcome)
  \/ Produce
  \/ Exit
  \/ LocalRead
  \/ LocalEof
  \/ LocalFinish
  \/ RemoteRead
  \/ RemoteFinish
  \/ RemoteKilled
  \/ \E command \in BlockingCommands, hangs \in BOOLEAN : StartBlocking(command, hangs)
  \/ FinishBlocking
  \/ \E partial \in Partials, kind \in ProbeKinds : GetCompletions(partial, kind)
  \/ LocalTimeout
  \/ TimePasses
  \/ RemoteReleased

SpecOps == InitOps /\ [][NextOps]_vars

\* ------------------------------------------------------------------ claims on the operations of a client
\* C12: on both backends interrupt_command() and kill_command() called while
\* the client holds no command handle return False and leave the client
\* (connected, current_directory, handle) and the call in progress, if any,
\* as they were.
C12_IdleInterruptKillNoEffect ==
  \A i \in 1..Len(calls) : LET e == calls[i] IN
    (e.op \in {"interrupt", "kill"} /\ ~e.before.running) =>
      /\ ~e.ok
      /\ e.after = e.before
      /\ e.jobAfter = e.jobBefore

\* An SSHClient that is connected and runs nothing has been interrupted and
\* killed, and both calls returned False.
C12_Witness ==
  \E i, k \in 1..Len(calls) :
    /\ calls[i].op = "interrupt" /\ calls[k].op = "kill"
    /\ ~calls[i].before.running /\ ~calls[k].before.running
    /\ calls[i].before.kind = "remote" /\ calls[i].before.connected
    /\ ~calls[i].ok /\ ~calls[k].ok

\* C13: as stated, after disconnect() returns the client holds no command
\* handle and is not connected, on both backends.
C13_DisconnectLeavesNothing ==
  \A i \in 1..Len(calls) : LET e == calls[i] IN
    e.op = "disconnect" => (~e.after.running /\ ~e.after.connected)

\* C14: as stated, a streaming execute whose command started passes the
\* chunks to the sink in the order it read them and returns the join of
\* exactly the chunks the sink got.
C14_StreamReturnsWhatTheSinkGot ==
  \A i \in 1..Len(calls) : LET e == calls[i] IN
    (e.op = "stream" /\ e.outcome.ok) =>
      (e.sink = e.read /\ e.output = Joined(e.sink))

\* C15: as stated, a blocking execute is never still waiting after its
\* timeout has expired, and a command that outlasts the timeout makes the
\* call fail with the timeout diagnostic.
C15_BlockingExecuteTimesOut ==
  /\ job.pc = "blocking" => ~job.overdue
  /\ \A i \in 1..Len(calls) : LET e == calls[i] IN
       (e.op = "execute" /\ e.jobBefore.pc = "blocking" /\ e.jobBefore.hangs) =>
         (~e.ok /\ e.output = TIMED_OUT)

\* C16: as stated, get_completions is never still waiting after its timeout
\* has expired, and it returns the backend's lines in their order when the
\* probe printed them and the empty list in every other case.
C16_CompletionsAlwaysAList ==
  /\ job.pc = "completing" => ~job.overdue
  /\ \A i \in 1..Len(calls) : LET e == calls[i] IN
       e.op = "get_completions" =>
         e.output = IF e.outcome.ok /\ (e.before.kind = "local" \/ e.before.connected)
                      THEN e.read ELSE <<>>

\* C17: SSHClient.connect(): when the connection cannot be set up it returns
\* (False, diagnostic) and the client stays not connected; when it is set up
\* and the pwd probe fails it returns success, the client is connected and
\* current_directory is None.
C17_ConnectFailureAndProbeFailure ==
  \A i \in 1..Len(calls) : LET e == calls[i] IN
    e.op = "connect" =>
      /\ ~e.outcome.ok => (~e.ok /\ e.output # <<>> /\ ~e.after.connected)
      /\ (e.outcome.ok /\ e.outcome.dir = NoDir) =>
           (e.ok /\ e.after.connected /\ e.after.current_directory = NoDir)

\* A connect() whose probe failed has returned success.
C17_Witness ==
  \E i \in 1..Len(calls) :
    /\ calls[i].op = "connect"
    /\ calls[i].outcome.ok /\ calls[i].outcome.dir = NoDir
    /\ calls[i].ok /\ calls[i].after.connected
    /\ sessions[1].connected /\ sessions[1].current_directory = NoDir

\* C27: a streaming execute that returns success has passed to the sink
\* everything the command wrote before it exited: what was still in the pipe
\* or on the channel when the read loop ended is delivered too.
C27_StreamingDeliversAllOutput ==
  \A i \in 1..Len(calls) :
    LET e == calls[i] IN
    (e.op = "stream" /\ e.ok) => e.sink = e.jobBefore.sink \o e.jobBefore.pipe

\* The thread inside _execute_streaming is scheduled: its loop and what
\* follows the loop go on whenever they can; each of its steps changes the
\* position of the call or the content of the pipe.  Nothing is assumed of the
\* command, which may write or exit late or never.
streamVars == <<job.pc, job.pipe>>

\* Streaming calls of one client, with the calls other threads make on the
\* client meanwhile.
NextStreamOps ==
  \/ \E outcome \in ConnectOutcomes : ClientConnect(outcome)
  \/ \E dies \in BOOLEAN : InterruptCommand(dies)
  \/ KillCommand
  \/ ClientDisconnect
  \/ \E chunks \in CommandOutputs, outcome \in StreamOutcomes :
       StartStreaming(chunks, outcome)
  \/ Produce
  \/ Exit
  \/ LocalRead
  \/ LocalEof
  \/ LocalFinish
  \/ RemoteRead
  \/ RemoteFinish
  \/ RemoteKilled

SpecOpsLive ==
  /\ InitOps /\ [][NextStreamOps]_vars
  /\ WF_streamVars(LocalRead) /\ WF_streamVars(LocalEof) /\ WF_streamVars(LocalFinish)
  /\ WF_streamVars(RemoteRead) /\ WF_streamVars(RemoteFinish)
  /\ WF_streamVars(RemoteKilled)

\* Call i is a kill_command() that found the handle of a streaming execute
\* which has not returned since.
KillOfCurrent(i) ==
  /\ calls[i].op = "kill"
  /\ calls[i].ok
  /\ calls[i].jobBefore.pc \in {"streaming", "waiting"}
  /\ \A k \in (i + 1)..Len(calls) : calls[k].op # "stream"

KilledWhileStreaming ==
  /\ job.pc \in {"streaming", "waiting"}
  /\ \E i \in 1..Len(calls) : KillOfCurrent(i)

\* Call k is the return of a streaming execute during which call i, a
\* kill_command(), found its handle.
ReturnAfterKill(i, k) ==
  /\ i < k
  /\ calls[i].op = "kill" /\ calls[i].ok
  /\ calls[i].jobBefore.pc \in {"streaming", "waiting"}
  /\ calls[k].op = "stream"
  /\ \A m \in (i + 1)..(k - 1) : calls[m].op # "stream"

\* C35: a streaming execute whose handle a kill_command() has found returns
\* (with success or with a failure value, on either backend), and the
\* client it returns refers to no handle.
C35_KilledStreamReturns ==
  /\ KilledWhileStreaming ~> (job.pc = "idle")
  /\ [](\A i, k \in 1..Len(calls) : ReturnAfterKill(i, k) => ~calls[k].after.running)

\* A command streamed by a connected SSHClient was killed after its first
\* chunk had been read; the execute call has returned and the client refers
\* to no channel.
C35_Witness ==
  /\ job.pc = "idle"
  /\ ~TheClient.running
  /\ \E i, k \in 1..Len(calls) :
       /\ ReturnAfterKill(i, k)
       /\ calls[i].before.kind = "remote"
       /\ calls[i].jobBefore.alive
       /\ calls[k].read # <<>>

\* ------------------------------------------------------------------ streaming calls from several threads
\* Streaming calls started on the client in one behaviour.
MaxStreams == 3

\* The variables a streaming call of this specification leaves alone.
streamsFrame == <<ssh_client, procCwd, execLog, parseVars, uiVars, tab, job, calls>>

\* The process or channel of a streaming call: whether it still runs, and
\* whether the call that started it has returned, and with what.
NewHandle == [alive |-> TRUE, returned |-> FALSE, ok |-> FALSE]

\* The handle the client refers to is absent or has ended.
NoneOrEnded(st) == IF st.running = 0 THEN TRUE ELSE ~st.handles[st.running].alive

\* _execute_streaming on some thread: the process or channel is started and
\* assigned to running_process / running_channel, whatever that field holds.
ExecuteStreaming ==
  /\ Len(streams.handles) < MaxStreams
  /\ TheClient.kind = "local" \/ TheClient.connected
  /\ streams' = [handles |-> Append(streams.handles, NewHandle),
                 running |-> Len(streams.handles) + 1]
  /\ sessions' = [sessions EXCEPT ![1].running = TRUE]
  /\ UNCHANGED streamsFrame

\* The command of handle k exits by itself.
HandleExits(k) ==
  /\ k \in 1..Len(streams.handles)
  /\ streams.handles[k].alive
  /\ streams' = [streams EXCEPT !.handles[k].alive = FALSE]
  /\ UNCHANGED <<sessions, streamsFrame>>

\* kill_command() on another thread while the client refers to a running
\* handle: the local process group is killed and the reference kept, the
\* remote channel is closed and the reference set to None.
KillStreaming ==
  /\ streams.running # 0
  /\ streams.handles[streams.running].alive
  /\ streams' = [streams EXCEPT !.handles[streams.running].alive = FALSE,
                                !.running = IF TheClient.kind = "local" THEN @ ELSE 0]
  /\ sessions' = [sessions EXCEPT ![1].running = (TheClient.kind = "local")]
  /\ UNCHANGED streamsFrame

\* The streaming call that started handle k leaves its loop and returns.  Its
\* loop asks self.running_process.poll() / self.running_channel
\* .exit_status_ready(), and it waits for or closes what that field refers
\* to: with None there the attribute access raises and the call returns
\* False, otherwise it returns True once that handle has ended; in both
\* cases the field is None afterwards.
StreamingReturns(k) ==
  /\ k \in 1..Len(streams.handles)
  /\ ~streams.handles[k].returned
  /\ NoneOrEnded(streams)
  /\ streams' = [streams EXCEPT !.handles[k].returned = TRUE,
                                !.handles[k].ok = (streams.running # 0),
                                !.running = 0]
  /\ sessions' = [sessions EXCEPT ![1].running = FALSE]
  /\ UNCHANGED streamsFrame

InitStreams ==
  /\ procCwd = Root
  /\ \/ sessions = <<NewLocalClient(Root)>>
     \/ \E d \in {Home, NoDir} :
          sessions = <<[NewSSHClient("s1") EXCEPT !.connected = TRUE,
                                                  !.current_directory = d]>>
  /\ ssh_client = 1
  /\ execLog = <<>>
  /\ ParseIdle
  /\ UiIdle
  /\ OpsIdle

NextStreams ==
  \/ ExecuteStreaming
  \/ \E k \in 1..MaxStreams : HandleExits(k)
  \/ KillStreaming
  \/ \E k \in 1..MaxStreams : StreamingReturns(k)

SpecStreams == InitStreams /\ [][NextStreams]_vars

\* C22: a handle that has ended stays ended, the client's reference is
\* cleared only once the handle it refers to has ended, and a streaming
\* execute installs its handle only when the client refers to no handle or
\* to one that has ended or been killed.
C22_HandleInstalledOnlyWhenFree ==
  [][/\ \A k \in 1..Len(streams.handles) :
          ~streams.handles[k].alive => ~streams'.handles[k].alive
     /\ (streams.running # 0 /\ streams'.running = 0) =>
          ~streams'.handles[streams.running].alive
     /\ Len(streams'.handles) > Len(streams.handles) => NoneOrEnded(streams)]_vars

\* ------------------------------------------------------------------ process groups of the local backend
\* Signals sent by interrupt_command and kill_command in one behaviour.
MaxSignals == 2

\* The process that runs the application, leader of its own group here.
Caller == [pid |-> 1, pgid |-> 1]

\* The child runs os.setsid() before exec and keeps the parent's group.
SetsidSkipped(pid, parent_pgid) == parent_pgid

\* preexec_fn=os.setsid: the child becomes the leader of a new session and
\* of a new process group, whose id is the child's pid.
Setsid(pid, parent_pgid) == pid

\* subprocess.Popen(...) for the k-th streamed command: fork gives the child
\* a pid no live process has and the group of its parent.
Spawned(k) ==
  [pid |-> Caller.pid + k, pgid |-> Setsid(Caller.pid + k, Caller.pgid),
   alive |-> TRUE, reaped |-> FALSE, returned |-> FALSE, ok |-> FALSE]

NoProcs == [procs |-> <<>>, running |-> 0, signals |-> <<>>]

groupsFrame == <<sessions, ssh_client, procCwd, execLog, parseVars, uiVars, tab, job, calls>>

\* A signal that was delivered: to every process of group pgid, or to the
\* one process pid of that group.
Signal(by, sig, scope, p, k) ==
  [by |-> by, sig |-> sig, scope |-> scope, pid |-> p.pid, pgid |-> p.pgid, handle |-> k]

\* _execute_streaming: Popen starts the command and the handle is assigned to
\* self.running_process, whatever that field holds.
SpawnStreaming ==
  /\ Len(streams.procs) < MaxStreams
  /\ streams' = [streams EXCEPT !.procs = Append(@, Spawned(Len(@) + 1)),
                                !.running = Len(streams.procs) + 1]
  /\ UNCHANGED groupsFrame

\* The command of handle k exits by itself and waits to be reaped.
ProcessExits(k) ==
  /\ k \in 1..Len(streams.procs)
  /\ streams.procs[k].alive
  /\ streams' = [streams EXCEPT !.procs[k].alive = FALSE]
  /\ UNCHANGED groupsFrame

\* self.running_process.poll() in the loop, or wait() after it, on a process
\* that has exited: it is reaped, and its pid names no process from then on.
StreamingReaps ==
  /\ streams.running # 0
  /\ ~streams.procs[streams.running].alive
  /\ ~streams.procs[streams.running].reaped
  /\ streams' = [streams EXCEPT !.procs[streams.running].reaped = TRUE]
  /\ UNCHANGED groupsFrame

\* The call that started handle k returns: after wait() on the handle the
\* field refers to, or from its handler when the field is None.
LocalStreamingReturns(k) ==
  /\ k \in 1..Len(streams.procs)
  /\ ~streams.procs[k].returned
  /\ IF streams.running = 0 THEN TRUE ELSE streams.procs[streams.running].reaped
  /\ streams' = [streams EXCEPT !.procs[k].returned = TRUE,
                                !.procs[k].ok = (streams.running # 0),
                                !.running = 0]
  /\ UNCHANGED groupsFrame

\* What interrupt_command (sig = SIGINT, terminate() as fallback) and
\* kill_command (sig = SIGKILL, kill() as fallback) deliver.  os.getpgid
\* finds the process unless it has been reaped; refused tells whether
\* os.killpg raises for a process that is there.  The fallback signals the
\* pid of the handle, and Popen sends nothing once it has the return code.
Delivered(st, by, sig, fallback, refused) ==
  IF st.running = 0 THEN <<>>
  ELSE LET p == st.procs[st.running] IN
       IF p.reaped THEN <<>>
       ELSE IF ~refused THEN <<Signal(by, sig, "group", p, st.running)>>
       ELSE <<Signal(by, fallback, "process", p, st.running)>>

\* The processes after the signals: SIGKILL ends the process, SIGINT and
\* SIGTERM end it when it does not handle them (dies).
AfterSignals(st, sent, dies) ==
  [k \in 1..Len(st.procs) |->
     IF \E i \in 1..Len(sent) :
          /\ sent[i].handle = k
          /\ sent[i].sig = "SIGKILL" \/ dies
       THEN [st.procs[k] EXCEPT !.alive = FALSE]
       ELSE st.procs[k]]

LocalInterrupt(refused, dies) ==
  /\ Len(streams.signals) < MaxSignals
  /\ LET sent == Delivered(streams, "interrupt_command", "SIGINT", "SIGTERM", refused)
     IN streams' = [streams EXCEPT !.signals = @ \o sent,
                                   !.procs = AfterSignals(streams, sent, dies)]
  /\ UNCHANGED groupsFrame

LocalKill(refused) ==
  /\ Len(streams.signals) < MaxSignals
  /\ LET sent == Delivered(streams, "kill_command", "SIGKILL", "SIGKILL", refused)
     IN streams' = [streams EXCEPT !.signals = @ \o sent,
                                   !.procs = AfterSignals(streams, sent, TRUE)]
  /\ UNCHANGED groupsFrame

InitGroups ==
  /\ procCwd = Root
  /\ sessions = <<NewLocalClient(Root)>>
  /\ ssh_client = 1
  /\ execLog = <<>>
  /\ ParseIdle
  /\ UiIdle
  /\ job = IdleJob /\ calls = <<>>
  /\ streams = NoProcs

NextGroups ==
  \/ SpawnStreaming
  \/ \E k \in 1..MaxStreams : ProcessExits(k)
  \/ StreamingReaps
  \/ \E k \in 1..MaxStreams : LocalStreamingReturns(k)
  \/ \E refused, dies \in BOOLEAN : LocalInterrupt(refused, dies)
  \/ \E refused \in BOOLEAN : LocalKill(refused)

SpecGroups == InitGroups /\ [][NextGroups]_vars

\* C32: every command LocalClient streams runs in a process group of its
\* own, which is not the group of the application, and every signal
\* interrupt_command and kill_command deliver goes to the group of a
\* streamed command, never to the group of the application.
C32_SignalsStayInCommandGroup ==
  /\ \A k \in 1..Len(streams.procs) :
       /\ streams.procs[k].pgid # Caller.pgid
       /\ \A m \in 1..Len(streams.procs) :
            streams.procs[m].pgid = streams.procs[k].pgid => m = k
  /\ \A i \in 1..Len(streams.signals) :
       /\ streams.signals[i].pgid # Caller.pgid
       /\ streams.signals[i].pgid = streams.procs[streams.signals[i].handle].pgid

\* Two commands were streamed; interrupt_command signalled the group of one
\* and kill_command the group of the other.
C32_Witness ==
  /\ Len(streams.procs) >= 2
  /\ \E i, j \in 1..Len(streams.signals) :
       /\ streams.signals[i].by = "interrupt_command"
       /\ streams.signals[i].sig = "SIGINT"
       /\ streams.signals[i].scope = "group"
       /\ streams.signals[j].by = "kill_command"
       /\ streams.signals[j].sig = "SIGKILL"
       /\ streams.signals[j].scope = "group"
       /\ streams.signals[i].pgid # streams.signals[j].pgid

\* ------------------------------------------------------------------ tab completion
\* Keys pressed in the input entry in one behaviour.
MaxKeys == 4

\* words[-1] of text_before_cursor.split(): the last word before the cursor,
\* empty when there is none.
LastWord(before) ==
  LET t == RStrip(before)
      spaces == { k \in 1..Len(t) : IsSpace(t[k]) }
      start == IF spaces = {} THEN 1
               ELSE (CHOOSE k \in spaces : \A m \in spaces : m <= k) + 1
  IN SubSeq(t, start, Len(t))

\* s[:n] for n >= 0
Take(s, n) == SubSeq(s, 1, IF n < Len(s) THEN n ELSE Len(s))

\* s[:-n] for n > 0
DropLast(s, n) == IF n >= Len(s) THEN <<>> ELSE SubSeq(s, 1, Len(s) - n)

\* apply_completion: the text before the cursor without the partial word.
CompletionPrefix(t, original_text, partial_word) ==
  IF partial_word # <<>>
    THEN DropLast(Take(original_text, t.cursor), Len(partial_word))
    ELSE Take(original_text, t.cursor)

\* apply_completion(completion, original_text, partial_word) on the entry.
ApplyCompletion(t, completion, original_text, partial_word) ==
  LET prefix == CompletionPrefix(t, original_text, partial_word)
      text_after == SubSeq(original_text, t.cursor + 1, Len(original_text))
  IN [t EXCEPT !.text = prefix \o completion \o text_after,
               !.cursor = Len(prefix) + Len(completion),
               !.applied = Append(@, completion)]

\* GLib.idle_add(self.apply_completions, completions, current_text, partial_word)
CompletionCallback(completions, current_text, partial_word) ==
  [fn |-> "apply_completions", req |-> 0, completions |-> completions,
   original_text |-> current_text, partial_word |-> partial_word]

\* A completion thread started for a partial word.
Fetch(partial_word, current_text) ==
  [partial_word |-> partial_word, current_text |-> current_text, done |-> FALSE]

\* handle_tab_completion on the entry state t.
HandleTabCompletion(t) ==
  LET partial_word == LastWord(Take(t.text, t.cursor)) IN
  IF ssh_client = 0 \/ ~sessions[ssh_client].connected THEN t
  ELSE IF partial_word = <<>> THEN t
  ELSE IF t.text # t.last_completion_text \/ t.completions = <<>>
    THEN [t EXCEPT !.fetches = Append(@, Fetch(partial_word, t.text))]
  ELSE LET index == (t.completion_index + 1) % Len(t.completions) IN
       ApplyCompletion([t EXCEPT !.completion_index = index],
                       t.completions[index + 1], t.text, partial_word)

\* on_key_pressed with the Tab key.
OnKeyPressedTab ==
  /\ Len(tab.keys) < MaxKeys
  /\ tab' = [HandleTabCompletion(tab) EXCEPT !.keys = Append(@, "Tab")]
  /\ UNCHANGED <<backendVars, parseVars, uiVars, opsVars>>

\* on_key_pressed with a character key that empties the candidate list but
\* leaves completion_index where it is.
OnKeyPressedOtherKeepsIndex(ch) ==
  /\ Len(tab.keys) < MaxKeys
  /\ tab' = [tab EXCEPT !.completions = <<>>,
                        !.last_completion_text = <<>>,
                        !.text = Take(@, tab.cursor) \o <<ch>>
                                   \o SubSeq(@, tab.cursor + 1, Len(@)),
                        !.cursor = @ + 1,
                        !.keys = Append(@, ch)]
  /\ UNCHANGED <<backendVars, parseVars, uiVars, opsVars>>

\* on_key_pressed with a character key, which the entry then inserts at the
\* cursor.
OnKeyPressedOther(ch) ==
  /\ Len(tab.keys) < MaxKeys
  /\ tab' = [tab EXCEPT !.completions = <<>>, !.completion_index = 0,
                        !.last_completion_text = <<>>,
                        !.text = Take(@, tab.cursor) \o <<ch>>
                                   \o SubSeq(@, tab.cursor + 1, Len(@)),
                        !.cursor = @ + 1,
                        !.keys = Append(@, ch)]
  /\ UNCHANGED <<backendVars, parseVars, uiVars, opsVars>>

\* get_completions_thread: the lookup on the active client and the hand-over
\* of its result to the main loop.
GetCompletionsThread(i, kind) ==
  /\ i \in 1..Len(tab.fetches)
  /\ ~tab.fetches[i].done
  /\ ssh_client # 0
  /\ tab' = [tab EXCEPT !.fetches[i].done = TRUE]
  /\ idleQ' = Append(idleQ, CompletionCallback(
                 CompletionsOf(sessions[ssh_client], tab.fetches[i].partial_word, kind),
                 tab.fetches[i].current_text, tab.fetches[i].partial_word))
  /\ UNCHANGED <<backendVars, parseVars, opsVars, local_mode, selected,
                 conversation_history, input_enabled, saved_settings, threads,
                 connThreads, chat, outLog, saveLog>>

\* apply_completions as idle callback.
ApplyCompletions ==
  /\ idleQ # <<>>
  /\ Head(idleQ).fn = "apply_completions"
  /\ LET cb == Head(idleQ)
         t == [tab EXCEPT !.completions = cb.completions, !.completion_index = 0,
                          !.last_completion_text = cb.original_text]
     IN tab' = IF cb.completions # <<>>
                 THEN ApplyCompletion(t, cb.completions[1], cb.original_text,
                                      cb.partial_word)
                 ELSE t
  /\ idleQ' = Tail(idleQ)
  /\ UNCHANGED <<backendVars, parseVars, opsVars, local_mode, selected,
                 conversation_history, input_enabled, saved_settings, threads,
                 connThreads, chat, outLog, saveLog>>

\* What the entry holds at the start, the cursor at its end.
TabTexts == { <<"f">>, <<"l", SP, "f">>, <<"g">> }

\* The character keys pressed.
TabChars == { "a", SP }

InitTab ==
  /\ procCwd = Root
  /\ \/ sessions = <<NewLocalClient(Root)>>
     \/ sessions = <<NewSSHClient("s1")>>
     \/ sessions = <<[NewSSHClient("s1") EXCEPT !.connected = TRUE,
                                                !.current_directory = Home]>>
  /\ ssh_client = 1
  /\ execLog = <<>>
  /\ ParseIdle
  /\ OpsIdle
  /\ local_mode = (sessions[1].kind = "local") /\ selected = sessions[1].server
  /\ conversation_history = <<>> /\ input_enabled = TRUE /\ saved_settings = <<>>
  /\ threads = <<>> /\ connThreads = <<>> /\ idleQ = <<>> /\ chat = <<>>
  /\ outLog = <<>> /\ saveLog = <<>>
  /\ \E text \in TabTexts : tab = [NoTab EXCEPT !.text = text, !.cursor = Len(text)]

NextTab ==
  \/ OnKeyPressedTab
  \/ \E ch \in TabChars : OnKeyPressedOther(ch)
  \/ \E i \in 1..MaxKeys, kind \in {"lines", "raises"} : GetCompletionsThread(i, kind)
  \/ ApplyCompletions

SpecTab == InitTab /\ [][NextTab]_vars

\* No completion thread is running and no completion result waits in the
\* main loop.
NoFetchPending ==
  /\ \A i \in 1..Len(tab.fetches) : tab.fetches[i].done
  /\ idleQ = <<>>

\* C11: as stated, once candidates have been fetched and applied and no other
\* key has been pressed since, every further Tab starts no fetch, advances
\* completion_index by one modulo the number of candidates and applies the
\* candidate at the new index.
C11_RepeatedTabCycles ==
  [][(/\ tab'.keys = Append(tab.keys, "Tab")
      /\ tab.completions # <<>>
      /\ NoFetchPending) =>
       /\ tab'.fetches = tab.fetches
       /\ tab'.completion_index = (tab.completion_index + 1) % Len(tab.completions)
       /\ tab'.applied = Append(tab.applied, tab.completions[tab'.completion_index + 1])]_vars

\* completion_index points into self.completions.
IndexInRange ==
  IF tab.completions = <<>> THEN tab.completion_index = 0
  ELSE tab.completion_index \in 0..(Len(tab.completions) - 1)

\* C40: in every state completion_index is 0 when self.completions is empty
\* and otherwise at least 0 and below the number of candidates; the arrival
\* of candidates and a key other than Tab both leave it at 0.
C40_IndexWithinCandidates ==
  /\ []IndexInRange
  /\ [][/\ (idleQ # <<>> /\ Head(idleQ).fn = "apply_completions"
                /\ idleQ' = Tail(idleQ)) => tab'.completion_index = 0
        /\ (Len(tab'.keys) > Len(tab.keys) /\ Last(tab'.keys) # "Tab") =>
              tab'.completion_index = 0]_vars

\* Two candidates are cached, a second Tab has moved the index to 1, and the
\* next key, not a Tab, has put it back to 0.
C40_Witness ==
  /\ Len(tab.keys) >= 3
  /\ tab.keys[Len(tab.keys) - 1] = "Tab"
  /\ Last(tab.keys) # "Tab"
  /\ tab.applied # <<>> /\ Last(tab.applied) = <<"g", "a">>
  /\ tab.completions = <<>>
  /\ tab.completion_index = 0

\* The main loop runs the apply_completions callback at the head of its queue.
ApplyCompletionsStep ==
  /\ idleQ # <<>>
  /\ Head(idleQ).fn = "apply_completions"
  /\ idleQ' = Tail(idleQ)

\* C28: when the candidates of a completion request arrive after another key
\* than Tab has been pressed, the request is void: the cached candidate list
\* stays empty and the text of the input entry is left as it is.
C28_EditInvalidatesRequest ==
  [][(/\ ApplyCompletionsStep
      /\ tab.keys # <<>>
      /\ Last(tab.keys) # "Tab") =>
       /\ tab'.completions = <<>>
       /\ tab'.text = tab.text]_vars

\* ------------------------------------------------------------------ prompt specification
\* Turns of the conversation held before the request.
MaxHistory == 7

\* Requests submitted in one behaviour of the prompt specification.
MaxPromptRequests == 1

\* A conversation of n turns, user and assistant in turn.
PriorHistory(n) ==
  [i \in 1..n |-> Turn(IF i % 2 = 1 THEN "user" ELSE "assistant",
                       <<"turn", ToString(i)>>)]

\* The window after a conversation of up to MaxHistory turns.
InitPrompt ==
  /\ procCwd = Root
  /\ sessions = <<NewLocalClient(procCwd)>>
  /\ ssh_client = 1
  /\ execLog = <<>>
  /\ ParseIdle
  /\ local_mode = TRUE
  /\ selected = "Local"
  /\ conversation_history \in { PriorHistory(n) : n \in 0..MaxHistory }
  /\ input_enabled = TRUE
  /\ saved_settings = [max_output_chars |-> IntValue(MAX_OUTPUT_CHARS)]
  /\ threads = <<>>
  /\ connThreads = <<>>
  /\ idleQ = <<>>
  /\ chat = <<>>
  /\ outLog = <<>>
  /\ saveLog = <<>>
  /\ OpsIdle
  /\ tab = NoTab

NextPrompt ==
  \/ Len(threads) < MaxPromptRequests
       /\ \E text \in Messages(Len(threads) + 1) : OnSendMessage(text)
  \/ \E r \in 1..Len(threads) : \E outcome \in GenerateOutcomes : ThreadGenerate(r, outcome)
  \/ \E r \in 1..Len(threads) : ThreadExecuteReturn(r)
  \/ \E r \in 1..Len(threads) : ThreadFinally(r)
  \/ IdleAppendChatMessage
  \/ OnAiError
  \/ ReEnableInput

SpecPrompt == InitPrompt /\ [][NextPrompt]_vars

\* ------------------------------------------------------------------ clearing the chat
\* Clicks on Clear in one behaviour.
MaxClears == 1

CHAT_CLEARED == <<"Chat cleared">>

Clears == Len(SelectSeq(chat, LAMBDA l : l.text = CHAT_CLEARED))

\* An on_clear_chat that keeps the most recent turn.
OnClearChatKeepsLast ==
  /\ Clears < MaxClears
  /\ conversation_history' = LastTurns(conversation_history, 1)
  /\ chat' = Append(chat, ChatLine("SYSTEM", CHAT_CLEARED, 0))
  /\ UNCHANGED <<backendVars, parseVars, opsVars, tab, local_mode, selected, input_enabled,
                 saved_settings, threads, connThreads, idleQ, outLog, saveLog>>

\* on_clear_chat: the Clear button, which is always sensitive.
OnClearChat ==
  /\ Clears < MaxClears
  /\ conversation_history' = <<>>
  /\ chat' = Append(chat, ChatLine("SYSTEM", CHAT_CLEARED, 0))
  /\ UNCHANGED <<backendVars, parseVars, opsVars, tab, local_mode, selected, input_enabled,
                 saved_settings, threads, connThreads, idleQ, outLog, saveLog>>

NextClear ==
  \/ NextPrompt
  \/ OnClearChat

SpecClear == InitPrompt /\ [][NextClear]_vars

\* ------------------------------------------------------------------ claims on the dispatch loop
Requests == 1..Len(threads)

Executing(r) == threads[r].pc = "executing"

\* execute_command calls made for request r.
ExecCount(r) == Len(SelectSeq(execLog, LAMBDA e : e.req = r))

\* ERROR lines shown for request r.
ErrorLines(r) == Len(SelectSeq(chat, LAMBDA l : l.role = "ERROR" /\ l.req = r))

\* The thread of request r has ended and its callbacks have all run.
Settled(r) ==
  /\ threads[r].pc = "done"
  /\ SelectSeq(idleQ, LAMBDA cb : cb.req = r) = <<>>

\* C4: at every moment at most one command execution is in flight per
\* session: while the dispatch of one request is executing, no second execute
\* request reaches the same session.
C4_OneExecutionInFlight ==
  \A r1, r2 \in Requests :
    (r1 # r2 /\ Executing(r1) /\ Executing(r2)) => threads[r1].sid # threads[r2].sid

\* Session i is connected and disconnect() has not been called on it.
LeftConnected(i) == sessions[i].connected /\ ~sessions[i].released

\* C5: after every switch of the active session the outgoing session has no
\* running command and has been disconnected, so no session other than the
\* active one is left connected, and no two sessions execute commands at the
\* same time.
C5_SwitchReleasesOutgoing ==
  /\ \A i \in 1..Len(sessions) :
       i # ssh_client => ~LeftConnected(i) /\ ~sessions[i].running
  /\ \A r1, r2 \in Requests :
       (Executing(r1) /\ Executing(r2)) => threads[r1].sid = threads[r2].sid

\* The turn on_send_message appended for request r.
UserTurn(r) == Turn("user", threads[r].message)

FailureStep(r) ==
  \/ threads[r].pc = "prompting" /\ threads'[r].generate_failed
  \/ /\ threads[r].generate_failed
     /\ \/ threads[r].pc = "finally" /\ threads'[r].pc = "done"
        \/ /\ idleQ # <<>>
           /\ Head(idleQ).req = r
           /\ Head(idleQ).fn \in {"on_ai_error", "re_enable_input"}
           /\ idleQ' = Tail(idleQ)

\* on_ai_error runs for request r.
ErrorShown(r) ==
  /\ idleQ # <<>>
  /\ Head(idleQ).req = r
  /\ Head(idleQ).fn = "on_ai_error"
  /\ idleQ' = Tail(idleQ)

Routed(r) == threads[r].pc \in {"finally", "done"} /\ ~threads[r].generate_failed

\* The step of the thread of request r from the parsed response to the
\* execution or to the conversation branch.
RoutingStep(r) ==
  threads[r].pc = "prompting" /\ threads'[r].pc # "prompting"
    /\ ~threads'[r].generate_failed

\* C8 as stated: execute_command is called, once and with the parsed command,
\* if and only if the decision is COMMAND and the command is not NONE; for
\* the decision CONVERSATION nothing is executed and the message is in the
\* history as the assistant turn.
C8_ExecuteIffCommandNotNone ==
  \A r \in Requests :
    Routed(r) =>
      /\ ExecCount(r) = 1 <=>
           (threads[r].decision = <<"COMMAND">> /\ threads[r].command # <<"NONE">>)
      /\ ExecCount(r) <= 1
      /\ threads[r].decision = <<"CONVERSATION">> =>
           /\ ExecCount(r) = 0
           /\ \E i \in 1..Len(conversation_history) :
                conversation_history[i] = Turn("assistant", threads[r].ai_message)

\* C8: the dispatch goes on to execute_command if and only if the decision is
\* COMMAND, the command is neither empty nor NONE and there is an active
\* client; execute_command is then called once, with the parsed command, on
\* that client, and is called at no other time; for the decision
\* CONVERSATION nothing is executed and the routing appends the message to
\* the history as the assistant turn.
C8_ExecuteIffCommandGiven ==
  /\ [][\A r \in Requests :
          RoutingStep(r) =>
            LET t == threads'[r] IN
            /\ Executing(r)' <=>
                 /\ t.decision = <<"COMMAND">>
                 /\ t.command # <<>>
                 /\ t.command # <<"NONE">>
                 /\ ssh_client # 0
            /\ Executing(r)' => t.sid = ssh_client
            /\ t.decision = <<"CONVERSATION">> =>
                 conversation_history' =
                   Append(conversation_history, Turn("assistant", t.ai_message))]_vars
  /\ [][\A r \in Requests :
          IF Executing(r) /\ ~Executing(r)'
            THEN /\ ExecCount(r)' = ExecCount(r) + 1
                 /\ Last(execLog').req = r
                 /\ Last(execLog').sid = threads[r].sid
                 /\ Last(execLog').command = CommandLine(threads[r].command)
            ELSE ExecCount(r)' = ExecCount(r)]_vars
  /\ [](\A r \in Requests :
          /\ ExecCount(r) <= 1
          /\ threads[r].pc = "prompting" => ExecCount(r) = 0
          /\ Routed(r) /\ threads[r].decision = <<"CONVERSATION">> => ExecCount(r) = 0)

\* A response with the decision COMMAND and the command pwd has been routed
\* and pwd has been executed once for it.
C8_Witness ==
  \E r \in Requests :
    /\ Routed(r)
    /\ threads[r].decision = <<"COMMAND">>
    /\ threads[r].command = <<"pwd">>
    /\ ExecCount(r) = 1
    /\ Last(execLog).command = <<Pwd>>

\* C18: the context built for the prompt of a request is made of the most
\* recent turns of the conversation history, 5 of them when the history holds
\* more, so no prompt embeds more than 5 turns.
C18_PromptKeepsLastFive ==
  /\ [][\A r \in Requests :
          (threads[r].pc = "prompting" /\ threads'[r].pc # "prompting") =>
            LET ctx == threads'[r].context
                h == conversation_history
            IN /\ Len(ctx) = IF Len(h) < 5 THEN Len(h) ELSE 5
               /\ \A i \in 1..Len(ctx) : ctx[i] = h[Len(h) - Len(ctx) + i]]_vars
  /\ [](\A r \in Requests : Len(threads[r].context) <= 5)

\* A prompt has been built after a conversation of 7 turns: it embeds 5 turns,
\* the last of them the user turn of the request.
C18_Witness ==
  \E r \in Requests :
    /\ threads[r].pc # "prompting"
    /\ Len(threads[r].hist0) = 7
    /\ Len(threads[r].context) = 5
    /\ threads[r].context[5] = UserTurn(r)

\* C30: as stated, the context built for the prompt of a request is made of
\* up to 5 turns that precede the request, the most recent ones, and the
\* turn of the request itself is not among them.
C30_ContextIsPriorTurns ==
  [][\A r \in Requests :
       (threads[r].pc = "prompting" /\ threads'[r].pc # "prompting") =>
         /\ threads'[r].context = LastTurns(threads[r].hist0, 5)
         /\ \A i \in 1..Len(threads'[r].context) :
              threads'[r].context[i] # UserTurn(r)]_vars

\* C29 as stated: in every step the history before is a prefix of the
\* history after.
C29_HistoryAppendOnly ==
  [][IsPrefix(conversation_history, conversation_history')]_vars

\* The step is a click on Clear.
ClearStep == chat' = Append(chat, ChatLine("SYSTEM", CHAT_CLEARED, 0))

\* C29: in every step that is no click on Clear the history before is a
\* prefix of the history after, and a click on Clear leaves the history
\* empty.
C29_HistoryAppendOnlyUntilCleared ==
  [][/\ ~ClearStep => IsPrefix(conversation_history, conversation_history')
     /\ ClearStep => conversation_history' = <<>>]_vars

\* A conversation was cleared while a request was under way, and the history
\* has grown again since.
C29_Witness ==
  /\ Clears = 1
  /\ Len(threads) = 1
  /\ Len(threads[1].hist0) >= 2
  /\ conversation_history = <<Turn("assistant", threads[1].ai_message)>>

\* The thread of request r moves from pc a to pc b in this step.
Moves(r, a, b) == threads[r].pc = a /\ threads'[r].pc = b

Appended(turn) == conversation_history' = Append(conversation_history, turn)

IsAssistantTurn(turn) == turn.role = "assistant"

DirectoryChangeQueued(r, d) ==
  /\ Len(idleQ') > Len(idleQ)
  /\ Last(idleQ').fn = "append_chat_message"
  /\ Last(idleQ').req = r
  /\ Last(idleQ').role = "SYSTEM"
  /\ Last(idleQ').text = <<"Directory changed to: ">> \o d

AnyDirectoryChangeQueued(r) ==
  /\ Len(idleQ') > Len(idleQ)
  /\ Last(idleQ').fn = "append_chat_message"
  /\ Last(idleQ').req = r
  /\ Last(idleQ').role = "SYSTEM"

\* C34: the COMMAND line of a request is built from the directory its
\* client tracks when the command is handed over, which is the directory the
\* client tracks when execute_command starts; and when execute_command has
\* returned, a "Directory changed to" line is queued exactly when that
\* client's tracked directory is no longer the directory shown, naming the
\* new one.
C34_DirectoryShownAndChangeReported ==
  [][\A r \in 1..Len(threads) :
       /\ Moves(r, "prompting", "executing") =>
             /\ threads'[r].current_dir = sessions[threads'[r].sid].current_directory
             /\ Last(idleQ').role = "COMMAND"
             /\ Last(idleQ').text =
                  CommandPrompt(threads'[r].current_dir, threads'[r].command)
       /\ Moves(r, "executing", "finally") =>
             LET e == Last(execLog') IN
             /\ e.req = r
             /\ e.prior = threads[r].current_dir
             /\ IF e.res.dir # e.prior
                  THEN DirectoryChangeQueued(r, e.res.dir)
                  ELSE ~AnyDirectoryChangeQueued(r)]_vars

\* Request r has been submitted and its dispatch is over: the thread has
\* left process_ai_command and the input is enabled.
BackToIdle(r) == Len(threads) >= r /\ threads[r].pc = "done" /\ input_enabled

\* The input becomes enabled in this step.
InputReEnabled == ~input_enabled /\ input_enabled'

\* C33: when generate and execute_command return, every submitted request
\* gets from its submission through prompting and parsing, and through
\* execution when it has a command, back to idle with the input enabled,
\* whichever way it went; and no step enables the input while the command of
\* a request is executing.
C33_DispatchReturnsToIdle ==
  /\ \A r \in 1..MaxRaceRequests : (Len(threads) >= r) ~> BackToIdle(r)
  /\ [][InputReEnabled => \A r \in 1..Len(threads) : threads[r].pc # "executing"]_vars

\* C38: a submit of an empty or blank text, and a submit made while there
\* is no active client or the active client is not connected, starts no
\* thread, leaves the conversation history as it was and the input enabled;
\* the second shows the "Terminal not ready" error line, the first nothing.
C38_UnacceptedSubmitChangesNothing ==
  [][Len(tab'.submitted) > Len(tab.submitted) =>
       LET u == Last(tab'.submitted) IN
       /\ u.message = <<>> \/ ~u.ready
       /\ threads' = threads /\ connThreads' = connThreads /\ idleQ' = idleQ
       /\ conversation_history' = conversation_history
       /\ input_enabled /\ input_enabled'
       /\ chat' = IF u.message = <<>> THEN chat
                  ELSE Append(chat, ChatLine("ERROR", TerminalNotReady, 0))]_vars

\* A text was submitted while the active client was not connected.
C38_Witness ==
  /\ Len(tab.submitted) = 1
  /\ tab.submitted[1].message # <<>>
  /\ ~tab.submitted[1].ready
  /\ \E i \in 1..Len(chat) : chat[i] = ChatLine("ERROR", TerminalNotReady, 0)
  /\ input_enabled

\* The step is taken by a background thread: a process thread or a connect
\* thread moves on.
BackgroundStep ==
  \/ Len(threads') = Len(threads) /\ threads' # threads
  \/ Len(connThreads') = Len(connThreads) /\ connThreads' # connThreads

\* C21: as stated, no step of a background thread changes the active client
\* reference, a client (its connection state, current_directory, handle) or
\* the conversation history.
C21_OnlyForegroundMutates ==
  [][BackgroundStep =>
       /\ ssh_client' = ssh_client
       /\ sessions' = sessions
       /\ conversation_history' = conversation_history]_vars

\* C9 as stated: an output longer than the maximum M is reported as its first
\* M characters followed by the marker with the original length; an output
\* of length at most M is reported unchanged.
C9_TruncatedOrUnchanged ==
  \A i \in 1..Len(outLog) :
    LET e == outLog[i] IN
    /\ Len(e.output) > e.max_output =>
         e.reported = SubSeq(e.output, 1, e.max_output)
                        \o <<TruncationMarker(Len(e.output))>>
    /\ Len(e.output) <= e.max_output => e.reported = e.output

\* C9: an output longer than the maximum M is reported as its first M
\* characters followed by the marker with the original length; a non-empty
\* output of length at most M is reported unchanged; an empty output is
\* reported as "(no output)".
C9_TruncatedOrUnchangedOrPlaceholder ==
  \A i \in 1..Len(outLog) :
    LET e == outLog[i] IN
    /\ Len(e.output) > e.max_output =>
         e.reported = SubSeq(e.output, 1, e.max_output)
                        \o <<TruncationMarker(Len(e.output))>>
    /\ (Len(e.output) <= e.max_output /\ e.output # <<>>) => e.reported = e.output
    /\ (Len(e.output) <= e.max_output /\ e.output = <<>>) =>
         e.reported = <<"(no output)">>

\* With a maximum of 2 an output of 3 characters has been cut to 2 and the
\* marker, and an empty output has been reported.
C9_Witness ==
  /\ \E i \in 1..Len(outLog) :
       /\ outLog[i].max_output = 2
       /\ Len(outLog[i].output) = 3
       /\ Len(outLog[i].reported) = 3
       /\ outLog[i].reported[3] = TruncationMarker(3)
  /\ \E i \in 1..Len(outLog) : outLog[i].output = <<>>

\* C10: a configured maximum that is an integer less than or equal to 0 is
\* treated as the default 150000, when the dispatch cuts an output and when
\* save_settings validates the value.
C10_NonPositiveMaxIsDefault ==
  /\ \A i \in 1..Len(outLog) :
       (outLog[i].setting.int /\ outLog[i].setting.n <= 0) =>
         outLog[i].max_output = MAX_OUTPUT_CHARS
  /\ \A i \in 1..Len(saveLog) :
       (saveLog[i].entered.int /\ saveLog[i].entered.n <= 0) =>
         saveLog[i].stored = MAX_OUTPUT_CHARS

\* ------------------------------------------------------------------ backend specification
\* The command lines handed to a backend.
CdTargets ==
  { <<"/", "tmp">>, <<"tmp">>, <<"..">>, <<"nx">>, <<"~">>, <<"/", "nx", "..">> }

ExecCommands ==
  { <<Cd(t)>> : t \in CdTargets }
    \cup { <<Cd(t), AndAnd, Pwd>> : t \in {<<"/", "tmp">>, <<"tmp">>, <<"..">>, <<"nx">>} }
    \cup { <<Echo("hi"), Semi, Cd(<<"/", "tmp">>), Semi, Pwd>>, <<Pwd>>, <<CdNoArg>> }
    \cup { <<Cd(<<"nx">>), Semi, Pwd>>, <<Cd(<<"nx">>), Semi, Cd(<<"/", "tmp">>), Semi, Pwd>> }
    \cup { <<Pwd, Semi, Cd(<<"nx">>)>> }

\* A connected client of either kind: a local one starts in the directory of
\* the process, a remote one in the directory its connect() probe returned
\* (unknown when the probe failed).
InitExec ==
  /\ procCwd \in Dirs
  /\ \/ sessions = <<NewLocalClient(procCwd)>>
     \/ \E d \in {Home, NoDir} :
          sessions = <<[NewSSHClient("s1") EXCEPT !.connected = TRUE,
                                                  !.current_directory = d]>>
  /\ ssh_client = 1
  /\ execLog = <<>>
  /\ ParseIdle
  /\ UiIdle
  /\ OpsIdle

LocalCall(command) ==
  /\ Len(execLog) < MaxCalls
  /\ sessions[ssh_client].kind = "local"
  /\ ApplyExec(ssh_client, command, 0)
  /\ UNCHANGED <<ssh_client, parseVars, opsVars, tab, uiVars>>

RemoteCall(command) ==
  /\ Len(execLog) < MaxCalls
  /\ sessions[ssh_client].kind = "remote"
  /\ ApplyExec(ssh_client, command, 0)
  /\ UNCHANGED <<ssh_client, parseVars, opsVars, tab, uiVars>>

NextExec ==
  \/ \E command \in ExecCommands : LocalCall(command)
  \/ \E command \in ExecCommands : RemoteCall(command)

SpecExec == InitExec /\ [][NextExec]_vars

\* ------------------------------------------------------------------ claims on the backends
\* What the shell means by cd <path> issued in directory prior.
Resolve(prior, path) == NormPath(Join(prior, ExpandUser(path)))

LastExec == Last(execLog)

IsSingleCd(command) == Len(command) = 1 /\ StartsWithCd(command[1])

\* C1: after execute of a command that is solely `cd <path>`, on either
\* backend, the tracked directory is the normalized resolution of <path>
\* relative to the directory tracked before, and nothing was handed to the
\* general execution path.
C1_SingleCdTracksResolution ==
  \A i \in 1..Len(execLog) :
    LET e == execLog[i] IN
    (IsSingleCd(e.command) /\ e.prior # NoDir) =>
      /\ e.res.dir = Resolve(e.prior, e.command[1].arg)
      /\ e.res.runs = <<>>

IsCdAndCmd(command) ==
  /\ Len(command) = 3
  /\ StartsWithCd(command[1])
  /\ command[2] = AndAnd
  /\ command[3].op \notin {"cd", ";", "&&"}

\* C2: after execute of `cd A && <cmd>`, on either backend, the tracked
\* directory is the resolution of A relative to the directory tracked before,
\* and <cmd> ran exactly once, in that directory (A applied exactly once).
C2_CdAndCmdRunsInResolvedDir ==
  \A i \in 1..Len(execLog) :
    LET e == execLog[i] IN
    (IsCdAndCmd(e.command) /\ e.prior # NoDir) =>
      /\ e.res.dir = Resolve(e.prior, e.command[1].arg)
      /\ Len(e.res.runs) = 1
      /\ e.res.runs[1].log = <<[seg |-> e.command[3], cwd |-> e.res.dir]>>

EchoCdPwd == <<Echo("hi"), Semi, Cd(<<"/", "tmp">>), Semi, Pwd>>

\* C3: on the Local backend `echo hi; cd /tmp; pwd` returns the output of the
\* segments in order with the resolved directory /tmp as the final line, and
\* the tracked directory after the call is that directory.
C3_LocalCompoundCdTracked ==
  \A i \in 1..Len(execLog) :
    LET e == execLog[i] IN
    (e.kind = "local" /\ e.command = EchoCdPwd) =>
      /\ e.res.ok
      /\ e.res.output = Flat(<<<<"hi">>, <<"/", "tmp">>>>)
      /\ Last(SplitLines(Strip(e.res.output))) = <<"/", "tmp">>
      /\ e.res.dir = <<"/", "tmp">>

\* C19: when the whole command is one cd segment whose target the shell can
\* enter, execute on either backend returns success with the resolved path as
\* its output, records that path as the tracked directory and does not enter
\* the general execution path.
C19_SingleCdReturnsResolvedPath ==
  \A i \in 1..Len(execLog) :
    LET e == execLog[i] IN
    (/\ IsSingleCd(e.command)
     /\ e.prior # NoDir
     /\ e.command[1].arg[1] # "~"
     /\ ChDir(e.prior, e.command[1].arg) # <<>>) =>
      /\ e.res.ok
      /\ e.res.output = Resolve(e.prior, e.command[1].arg)
      /\ e.res.dir = Resolve(e.prior, e.command[1].arg)
      /\ e.res.runs = <<>>

\* C20: on either backend, after cd with no argument and after cd ~ the
\* tracked directory is the home directory.
C20_CdHome ==
  \A i \in 1..Len(execLog) :
    LET e == execLog[i] IN
    (e.command = <<CdNoArg>> \/ e.command = <<Cd(<<"~">>)>>) => e.res.dir = Home

\* What a probe the client sent was made of, and what the machine answered.
ProbeLastDir(probe) == IF Len(probe) = 5 THEN probe[1].arg ELSE NoDir

ProbeTarget(probe) == probe[Len(probe) - 2].arg

ProbeAnswer(probe) == RunShell(Home, probe)

ProbeFailed(probe) == ~(ProbeAnswer(probe).out # <<>> /\ ProbeAnswer(probe).err = <<>>)

CdNxCdTmpPwd == <<Cd(<<"nx">>), Semi, Cd(<<"/", "tmp">>), Semi, Pwd>>

Confirmed(i) ==
  {execLog[1].prior}
    \cup { Last(SplitLines(Strip(Flat(ProbeAnswer(execLog[j].res.probes[k]).out)))) :
             <<j, k>> \in { jk \in (1..i) \X (1..Len(CdNxCdTmpPwd)) :
                              /\ jk[2] <= Len(execLog[jk[1]].res.probes)
                              /\ ~ProbeFailed(execLog[jk[1]].res.probes[jk[2]]) } }

\* C24: on the Remote backend the directory a command of the general
\* execution path is prefixed with is a confirmed one (the directory of the
\* connect or the answer of a successful probe), and the shell that runs the
\* command enters it: it is the tracked directory after the call.
C24_PrefixIsConfirmedDirectory ==
  \A i \in 1..Len(execLog) :
    LET e == execLog[i] IN
    (e.kind = "remote" /\ e.res.runs # <<>>
       /\ Len(e.res.runs[1].command) > Len(e.command)) =>
      LET d == e.res.runs[1].command[1].arg IN
      /\ d \in Confirmed(i)
      /\ ChDir(Home, d) = e.res.dir

\* What the shell did with the command line an execute_command call handed
\* to the general path: LocalClient starts it in the tracked directory
\* (cwd=), SSHClient in the login directory.
RunOf(e) ==
  RunShell(IF e.kind = "local" THEN e.prior ELSE Home, e.res.runs[1].command)

\* C31: a blocking execute_command, on either backend, whose command wrote
\* to stdout and to stderr returns both texts, stdout first, and a command
\* that ended with an error status is still returned as success.
C31_StreamsMergedOnBothBackends ==
  \A i \in 1..Len(execLog) :
    LET e == execLog[i] IN
    e.res.runs # <<>> =>
      /\ (RunOf(e).out # <<>> /\ RunOf(e).err # <<>>) =>
            e.res.output = Flat(RunOf(e).out) \o Flat(RunOf(e).err)
      /\ ~RunOf(e).ok => e.res.ok

\* C39: on the Local backend a cd into a directory the machine does not
\* have leaves the tracked directory as it was and returns success with the
\* diagnostic as its output; nothing is handed to the shell.
C39_LocalCdFailureIsOutput ==
  \A i \in 1..Len(execLog) :
    LET e == execLog[i] IN
    (/\ e.kind = "local"
     /\ IsSingleCd(e.command)
     /\ ChDir(e.prior, ExpandUser(e.command[1].arg)) = <<>>) =>
      /\ e.res.ok
      /\ e.res.output = ErrNoSuchDir
      /\ e.res.dir = e.prior
      /\ e.res.runs = <<>>

\* `cd nx` and then `cd tmp` from /: the first is refused with its
\* diagnostic, and the second starts from the directory that stayed tracked.
C39_Witness ==
  /\ Len(execLog) = 2
  /\ execLog[1].kind = "local"
  /\ execLog[1].prior = Root
  /\ execLog[1].command = <<Cd(<<"nx">>)>>
  /\ execLog[1].res.ok /\ execLog[1].res.output = ErrNoSuchDir
  /\ execLog[2].prior = Root
  /\ execLog[2].command = <<Cd(<<"tmp">>)>>
  /\ execLog[2].res.dir = <<"/", "tmp">>

\* ------------------------------------------------------------------ parser specification
NotParsed == [done |-> FALSE, decision |-> <<>>, command |-> <<>>, ai_message |-> <<>>]

\* Blank lines put before the first label.
MaxLead == 2

\* Labelled lines in a response.
MaxLines == 3

LabelledLines ==
  { <<DECISION, <<"COMMAND">>>>, <<DECISION, <<"CONVERSATION">>>>,
    <<COMMAND, <<"pwd">>>>, <<COMMAND, <<"NONE">>>>,
    <<RESPONSE, <<"ok">>>>, <<RESPONSE, <<"hi", SP, "there">>>> }

SeqsUpTo(S, n) == UNION { [1..k -> S] : k \in 0..n }

ParseShapes ==
  [lines : SeqsUpTo(LabelledLines, MaxLines), lead : 0..MaxLead,
   cont : BOOLEAN, trail : BOOLEAN]

\* n blank lines; from the second on they hold a space.
RECURSIVE BlankLines(_)
BlankLines(n) ==
  IF n = 0 THEN <<>> ELSE IF n = 1 THEN <<NL>> ELSE BlankLines(n - 1) \o <<SP, NL>>

ContLine == <<"more", SP, "text">>

\* The text of one labelled line; the first RESPONSE line may be followed by
\* a continuation line.
RECURSIVE RenderFrom(_, _, _)
RenderFrom(sh, i, contDone) ==
  IF i > Len(sh.lines) THEN <<>>
  ELSE LET l == sh.lines[i]
           withCont == sh.cont /\ ~contDone /\ l[1] = RESPONSE
       IN <<l[1], SP>> \o l[2] \o <<NL>>
            \o (IF withCont THEN ContLine \o <<NL>> ELSE <<>>)
            \o RenderFrom(sh, i + 1, contDone \/ withCont)

FreeText == <<"hello", SP, "there", NL, "bye", NL>>

Render(sh) ==
  LET body == IF sh.lines = <<>> THEN FreeText ELSE RenderFrom(sh, 1, FALSE)
      text == BlankLines(sh.lead) \o body
  IN IF sh.trail THEN text ELSE Front(text)

InitParse ==
  /\ shape \in ParseShapes
  /\ response = Render(shape)
  /\ parsed = NotParsed
  /\ sessions = <<>> /\ ssh_client = 0 /\ procCwd = Root /\ execLog = <<>>
  /\ UiIdle
  /\ OpsIdle

Parse ==
  /\ ~parsed.done
  /\ LET r == ParseAiResponse(response)
     IN parsed' = [done |-> TRUE, decision |-> r.decision, command |-> r.command,
                   ai_message |-> r.ai_message]
  /\ UNCHANGED <<shape, response, backendVars, uiVars, opsVars, tab>>

NextParse == Parse

SpecParse == InitParse /\ [][NextParse]_vars

LabelsOf(sh) == [i \in 1..Len(sh.lines) |-> sh.lines[i][1]]

\* Each of the three labels once.
AllThreeOnce(sh) ==
  /\ Len(sh.lines) = 3
  /\ \A lab \in {DECISION, COMMAND, RESPONSE} : \E i \in 1..3 : sh.lines[i][1] = lab

ValueOf(sh, lab) == (CHOOSE i \in 1..Len(sh.lines) : sh.lines[i][1] = lab)

Written(sh, lab) == sh.lines[ValueOf(sh, lab)][2]

\* C7: for a response with the three labels once each, in any order and after
\* any number of blank lines, parse_ai_response returns the decision, command
\* and message written after the labels; for a response with none of the
\* labels it returns (CONVERSATION, NONE, "").
C7_ParseAnyOrder ==
  parsed.done =>
    /\ AllThreeOnce(shape) =>
         /\ parsed.decision = Written(shape, DECISION)
         /\ parsed.command = Written(shape, COMMAND)
         /\ parsed.ai_message =
              Written(shape, RESPONSE)
                \o (IF shape.cont THEN <<NL>> \o ContLine ELSE <<>>)
    /\ shape.lines = <<>> =>
         /\ parsed.decision = <<"CONVERSATION">>
         /\ parsed.command = <<"NONE">>
         /\ parsed.ai_message = <<>>

\* A response with RESPONSE first, then COMMAND, then DECISION, after two
\* blank lines, has been parsed.
C7_Witness ==
  /\ parsed.done
  /\ shape.lead = 2
  /\ LabelsOf(shape) = <<RESPONSE, COMMAND, DECISION>>
  /\ parsed.decision = <<"COMMAND">>
  /\ parsed.command = <<"pwd">>

\* The lines of the response as the parser sees them.
ResponseLines == SplitLines(Strip(response))

\* The first line that starts with RESPONSE:, 0 when there is none.
FirstResponse ==
  IF \E k \in 1..Len(ResponseLines) : StartsWith(ResponseLines[k], RESPONSE)
    THEN CHOOSE k \in 1..Len(ResponseLines) :
           /\ StartsWith(ResponseLines[k], RESPONSE)
           /\ \A m \in 1..(k - 1) : ~StartsWith(ResponseLines[m], RESPONSE)
    ELSE 0

\* The lines from the i-th on, each after a newline.
RECURSIVE Continued(_, _)
Continued(lines, i) ==
  IF i > Len(lines) THEN <<>> ELSE <<NL>> \o lines[i] \o Continued(lines, i + 1)

\* The response cut after its first RESPONSE: line.
UpToFirstResponse == Flat(SubSeq(ResponseLines, 1, FirstResponse))

\* C25: as stated, when the response has a RESPONSE: line, the message is the
\* value of the first such line followed by every later line of the text, and
\* the decision and the command are those of the lines before it.
C25_CaptureRunsToTheEnd ==
  (parsed.done /\ FirstResponse # 0) =>
    /\ parsed.ai_message =
         LabelValue(ResponseLines[FirstResponse], RESPONSE)
           \o Continued(ResponseLines, FirstResponse + 1)
    /\ parsed.decision = ParseAiResponse(UpToFirstResponse).decision
    /\ parsed.command = ParseAiResponse(UpToFirstResponse).command

\* Where label lab occurs in the shape.
Occurrences(sh, lab) == { i \in 1..Len(sh.lines) : sh.lines[i][1] = lab }

\* The value written after the last occurrence of lab, or the default.
LastWritten(sh, lab, default) ==
  IF Occurrences(sh, lab) = {} THEN default
  ELSE sh.lines[CHOOSE i \in Occurrences(sh, lab) :
                  \A k \in Occurrences(sh, lab) : k <= i][2]

\* The continuation line follows the first RESPONSE line: it belongs to the
\* last one when there is only one.
ContOfLast(sh) ==
  IF sh.cont /\ Cardinality(Occurrences(sh, RESPONSE)) = 1
    THEN <<NL>> \o ContLine ELSE <<>>

\* C26: parse_ai_response returns for every response; a label that occurs
\* several times yields the value of its last occurrence, and a label that
\* does not occur yields CONVERSATION, NONE or the empty message.
C26_LastOccurrenceOrDefault ==
  parsed.done =>
    /\ parsed.decision = LastWritten(shape, DECISION, <<"CONVERSATION">>)
    /\ parsed.command = LastWritten(shape, COMMAND, <<"NONE">>)
    /\ parsed.ai_message = LastWritten(shape, RESPONSE, <<>>) \o ContOfLast(shape)

\* A response with two different DECISION lines and no COMMAND line has been
\* parsed: the second decision and the default command came out.
C26_Witness ==
  /\ parsed.done
  /\ LabelsOf(shape) = <<DECISION, DECISION, RESPONSE>>
  /\ shape.lines[1][2] # shape.lines[2][2]
  /\ parsed.decision = shape.lines[2][2]
  /\ parsed.command = <<"NONE">>
====
